---- MODULE Spec2Model ----
(***************************************************************************)
(* A model of the session transcript parser of the admin portal            *)
(* (core/session_parser.py), of the data classes it reads                  *)
(* (core/langfuse_client.py), and of the portal's access control: the tool *)
(* permissions (core/permissions.py), the forced password change           *)
(* (accounts/middleware.py) and the annotation views and their Langfuse    *)
(* calls (annotation_tool/views.py, annotation_tool/utils.py).             *)
(*                                                                         *)
(* Python values are tagged records [t |-> <type>, v |-> <payload>]:       *)
(*   None  [t |-> "None", v |-> 0]        str   [t |-> "str",  v |-> "x"]  *)
(*   int   [t |-> "int",  v |-> 5]        list  [t |-> "list", v |-> <<>>] *)
(*   dict  [t |-> "dict", v |-> [key |-> value, ...]]                      *)
(* A call returns [raised |-> FALSE, val |-> v] or, when the Python code   *)
(* raises, [raised |-> TRUE, val |-> <exception class>].                   *)
(***************************************************************************)
EXTENDS Integers, Sequences, FiniteSets, TLC

VARIABLES call, arg, ret, fetched_session, running, builds, users, auth_group

vars ==
    <<call, arg, ret, fetched_session, running, builds, users, auth_group>>

(***************************************************************************)
(* Bounds of the model.                                                    *)
(***************************************************************************)
MaxParts == 2
MaxTraces == 2
MaxMessages == 3
\* Builds of the transcript made in one behaviour
MaxBuilds == 3

(***************************************************************************)
(* Python values.                                                          *)
(***************************************************************************)
PyNone == [t |-> "None", v |-> 0]
PyStr(s) == [t |-> "str", v |-> s]
PyInt(n) == [t |-> "int", v |-> n]
PyBool(b) == [t |-> "bool", v |-> b]
PyList(xs) == [t |-> "list", v |-> xs]
PyDict(f) == [t |-> "dict", v |-> f]
EmptyDict == [t |-> "dict", v |-> <<>>]
\* An instance of a class json cannot serialize (class NonSerializable: pass)
PyObject == [t |-> "object", v |-> 0]

IsStr(x) == x.t = "str"
IsList(x) == x.t = "list"
IsDict(x) == x.t = "dict"
HasKey(d, k) == IsDict(d) /\ d.v # <<>> /\ k \in DOMAIN d.v

\* dict.get(k, default)
DictGet(d, k, default) == IF HasKey(d, k) THEN d.v[k] ELSE default

\* bool(x): None, "", 0, [] and {} are falsy
Truthy(x) ==
    CASE x.t = "None" -> FALSE
      [] x.t = "str"  -> x.v # ""
      [] x.t = "int"  -> x.v # 0
      [] x.t = "list" -> x.v # <<>>
      [] x.t = "dict" -> x.v # <<>>
      [] x.t = "object" -> TRUE
      [] x.t = "bool" -> x.v

Ok(v) == [raised |-> FALSE, val |-> v]
Raise(e) == [raised |-> TRUE, val |-> e]

\* The keys a dict of the model can hold, in the order it was built with
\* (Python dicts keep insertion order; the model fixes one).
KeyOrder == <<"id", "type", "content", "text", "url", "tool_call_id",
              "tool_calls", "name", "args", "messages", "thread_id">>

Digit(n) ==
    CASE n = 0 -> "0" [] n = 1 -> "1" [] n = 2 -> "2" [] n = 3 -> "3"
      [] n = 4 -> "4" [] n = 5 -> "5" [] n = 6 -> "6" [] n = 7 -> "7"
      [] n = 8 -> "8" [] n = 9 -> "9"

RECURSIVE PyRepr(_), ReprList(_, _), ReprDict(_, _, _)

\* repr(x); the strings of the model hold no quote, backslash or control
\* character, so repr of a string is the string in single quotes.
PyRepr(x) ==
    CASE x.t = "None" -> "None"
      [] x.t = "str"  -> "'" \o x.v \o "'"
      [] x.t = "int"  -> Digit(x.v)
      [] x.t = "list" -> "[" \o ReprList(x.v, 1) \o "]"
      [] x.t = "dict" -> "{" \o ReprDict(x.v, 1, TRUE) \o "}"
      [] x.t = "object" -> "<NonSerializable object>"
      [] x.t = "bool" -> IF x.v THEN "True" ELSE "False"

ReprList(xs, i) ==
    IF i > Len(xs) THEN ""
    ELSE (IF i > 1 THEN ", " ELSE "") \o PyRepr(xs[i]) \o ReprList(xs, i + 1)

ReprDict(f, i, first) ==
    IF i > Len(KeyOrder) THEN ""
    ELSE IF f # <<>> /\ KeyOrder[i] \in DOMAIN f
         THEN (IF first THEN "" ELSE ", ")
              \o "'" \o KeyOrder[i] \o "': " \o PyRepr(f[KeyOrder[i]])
              \o ReprDict(f, i + 1, FALSE)
         ELSE ReprDict(f, i + 1, first)

\* str(x): a string is itself, everything else is its repr
PyToStr(x) == IF IsStr(x) THEN x.v ELSE PyRepr(x)

(***************************************************************************)
(* extract_message_content                                                 *)
(***************************************************************************)
RECURSIVE TextParts_TaggedOnly(_, _)

\* Variant of TextParts without the branch of lines 36-37.
TextParts_TaggedOnly(content, i) ==
    IF i > Len(content) THEN <<>>
    ELSE LET part == content[i]
             rest == TextParts_TaggedOnly(content, i + 1)
         IN  IF IsDict(part) /\ DictGet(part, "type", PyNone) = PyStr("text")
             THEN <<DictGet(part, "text", PyStr(""))>> \o rest
             ELSE rest

RECURSIVE TextParts(_, _)

\* The loop of lines 32-37: the parts appended to text_parts, in order.
TextParts(content, i) ==
    IF i > Len(content) THEN <<>>
    ELSE LET part == content[i]
             rest == TextParts(content, i + 1)
         IN  IF IsDict(part) /\ DictGet(part, "type", PyNone) = PyStr("text")
             THEN <<DictGet(part, "text", PyStr(""))>> \o rest
             ELSE IF IsStr(part) THEN <<part>> \o rest
             ELSE rest

RECURSIVE JoinFrom(_, _, _)


JoinFrom(sep, parts, i) ==
    IF i > Len(parts) THEN ""
    ELSE (IF i > 1 THEN sep ELSE "") \o parts[i].v \o JoinFrom(sep, parts, i + 1)

\* sep.join(parts): TypeError when an item is not a str
PyJoin(sep, parts) ==
    IF \E i \in 1..Len(parts) : ~IsStr(parts[i])
    THEN Raise("TypeError")
    ELSE Ok(PyStr(JoinFrom(sep, parts, 1)))

\* Lines 41-45: the text field, else str() of the whole dict.
TextOrRepr(message_data) ==
    IF HasKey(message_data, "text")
    THEN Ok(message_data.v["text"])
    ELSE Ok(PyStr(PyToStr(message_data)))

\* Variant of extract_message_content that reads the text field before the
\* content field.
extract_message_content_TextFirst(message_data) ==
    IF IsStr(message_data) THEN Ok(message_data)
    ELSE IF IsDict(message_data)
    THEN IF HasKey(message_data, "text") THEN Ok(message_data.v["text"])
         ELSE IF HasKey(message_data, "content")
         THEN LET content == message_data.v["content"]
              IN  IF IsStr(content) THEN Ok(content)
                  ELSE IF IsList(content)
                       THEN PyJoin("\n", TextParts(content.v, 1))
                       ELSE Ok(PyStr(PyToStr(message_data)))
         ELSE Ok(PyStr(PyToStr(message_data)))
    ELSE Ok(PyStr(PyToStr(message_data)))

extract_message_content(message_data) ==
    IF IsStr(message_data) THEN Ok(message_data)
    ELSE IF IsDict(message_data)
    THEN IF HasKey(message_data, "content")
         THEN LET content == message_data.v["content"]
              IN  IF IsStr(content) THEN Ok(content)
                  ELSE IF IsList(content)
                       THEN PyJoin("\n", TextParts(content.v, 1))
                       ELSE TextOrRepr(message_data)
         ELSE TextOrRepr(message_data)
    ELSE Ok(PyStr(PyToStr(message_data)))

(***************************************************************************)
(* Trace and Session (core/langfuse_client.py).  A timestamp is a str; the *)
(* model keeps it as the sequence of its characters, digits only, so that  *)
(* Python's comparison of two str values can be computed.                  *)
(***************************************************************************)
Trace(id, timestamp, input, output, session_id, metadata) ==
    [id |-> id, timestamp |-> timestamp, name |-> PyNone, input |-> input,
     output |-> output, session_id |-> session_id, user_id |-> PyNone,
     metadata |-> metadata]

\* a < b for two str values: lexicographic, by character
StrLess(a, b) ==
    \/ \E i \in 1..Len(a) :
          /\ i <= Len(b)
          /\ \A j \in 1..(i - 1) : a[j] = b[j]
          /\ a[i] < b[i]
    \/ /\ Len(a) < Len(b)
       /\ \A j \in 1..Len(a) : a[j] = b[j]

(***************************************************************************)
(* parse_trace_messages                                                    *)
(***************************************************************************)
\* 'messages' in x, for the truthy x the model holds (a dict)
InMessages(x) == HasKey(x, "messages")

\* What a for loop over x visits: the items of a list; the characters of a
\* str and the keys of a dict are str values; None and int are not iterable.
IterItems(x) ==
    CASE x.t = "list" -> Ok(x.v)
      [] x.t = "str"  -> Ok(<<>>)
      [] x.t = "dict" -> Ok(<<>>)
      [] OTHER        -> Raise("TypeError")

\* A variant of lines 71-76 that shows every message that is not from the
\* user as the assistant's
DisplayType_NoSystem(message_type) ==
    IF message_type = PyStr("human") THEN "user" ELSE "assistant"

\* Lines 71-76 and 93-100: the display type of a message type
DisplayType(message_type) ==
    IF message_type = PyStr("human") THEN "user"
    ELSE IF message_type = PyStr("ai") THEN "assistant"
    ELSE "system"

ParsedMessage(display_type, content, trace) ==
    [type |-> display_type, content |-> content,
     timestamp |-> trace.timestamp, trace_id |-> trace.id]

RECURSIVE ParseMessageList(_, _, _, _)

\* The loops of lines 65-83 (is_output = FALSE) and 87-107 (TRUE) from
\* item i on: the messages appended, or the exception that ends the loop.
ParseMessageList(msgs, i, is_output, trace) ==
    IF i > Len(msgs) THEN Ok(<<>>)
    ELSE LET msg == msgs[i]
         IN  IF ~IsDict(msg)
             THEN ParseMessageList(msgs, i + 1, is_output, trace)
             ELSE LET message_type == DictGet(msg, "type", PyStr("unknown"))
                      content == extract_message_content(msg)
                  IN  IF content.raised THEN content
                      ELSE LET rest == ParseMessageList(msgs, i + 1, is_output, trace)
                           IN  IF rest.raised THEN rest
                               ELSE IF is_output /\ message_type = PyStr("human")
                               THEN rest
                               ELSE Ok(<<ParsedMessage(DisplayType(message_type),
                                                       content.val, trace)>>
                                       \o rest.val)

\* Lines 64-65 and 86-87: one side of the trace
ParseSide(side, is_output, trace) ==
    IF Truthy(side) /\ InMessages(side)
    THEN LET items == IterItems(side.v["messages"])
         IN  IF items.raised THEN items
             ELSE ParseMessageList(items.val, 1, is_output, trace)
    ELSE Ok(<<>>)

parse_trace_messages(trace) ==
    LET ins == ParseSide(trace.input, FALSE, trace)
    IN  IF ins.raised THEN ins
        ELSE LET outs == ParseSide(trace.output, TRUE, trace)
             IN  IF outs.raised THEN outs
                 ELSE Ok(ins.val \o outs.val)

(***************************************************************************)
(* parse_session_to_chat_format                                            *)
(***************************************************************************)
\* Lines 126-128
ThreadIdOf(trace, session) ==
    IF Truthy(trace.metadata) /\ HasKey(trace.metadata, "thread_id")
    THEN trace.metadata.v["thread_id"]
    ELSE IF Truthy(trace.session_id) THEN trace.session_id
    ELSE PyStr(session.id)

\* Lines 132-141
NewThread(thread_id, session) ==
    [messages |-> <<>>,
     metadata |-> [thread_id |-> thread_id, session_id |-> session.id,
                   created_at |-> session.created_at,
                   project_id |-> session.project_id,
                   environment |-> session.environment]]

Hashable(x) == x.t \notin {"list", "dict"}

\* A variant of line 122 in which the threads dict is shared by the calls:
\* a build starts from the threads the last finished build has left
NewThreads_Shared ==
    IF builds # <<>> /\ ~builds[Len(builds)].result.raised
    THEN Ok([tid \in DOMAIN builds[Len(builds)].result.val.threads |->
                builds[Len(builds)].result.val.threads[tid]])
    ELSE Ok(<<>>)

\* Line 122: threads = {}, a dict of the call
NewThreads == Ok(<<>>)

\* One pass of the loop of lines 124-145, for trace n: the threads dict as a
\* function from thread ids, or the exception that ends the loop.
ThreadsStep(before, session, n) ==
    LET trace == session.traces[n]
        thread_id == ThreadIdOf(trace, session)
    IN  IF before.raised THEN before
        ELSE IF ~Hashable(thread_id) THEN Raise("TypeError")
        ELSE LET threads ==
                     IF thread_id \in DOMAIN before.val THEN before.val
                     ELSE (thread_id :> NewThread(thread_id, session))
                              @@ before.val
                 trace_messages == parse_trace_messages(trace)
             IN  IF trace_messages.raised THEN trace_messages
                 ELSE Ok([threads EXCEPT ![thread_id].messages =
                              @ \o trace_messages.val])

RECURSIVE ThreadsAfter(_, _)

\* The loop of lines 124-145 over the first n traces
ThreadsAfter(session, n) ==
    IF n = 0 THEN NewThreads
    ELSE ThreadsStep(ThreadsAfter(session, n - 1), session, n)

\* A variant of the sort that puts x before the items with an equal key
InsertSorted_BeforeEqual(sorted, x) ==
    LET notless == {p \in 1..Len(sorted) :
                        ~StrLess(sorted[p].timestamp, x.timestamp)}
        at == IF notless = {} THEN Len(sorted) + 1
              ELSE CHOOSE p \in notless : \A q \in notless : p <= q
    IN  SubSeq(sorted, 1, at - 1) \o <<x>> \o SubSeq(sorted, at, Len(sorted))

\* Where list.sort puts x among the sorted items before it: behind every
\* item that is not greater (the sort is stable).
InsertSorted(sorted, x) ==
    LET greater == {p \in 1..Len(sorted) :
                        StrLess(x.timestamp, sorted[p].timestamp)}
        at == IF greater = {} THEN Len(sorted) + 1
              ELSE CHOOSE p \in greater : \A q \in greater : p <= q
    IN  SubSeq(sorted, 1, at - 1) \o <<x>> \o SubSeq(sorted, at, Len(sorted))

RECURSIVE SortPrefix(_, _)

SortPrefix(messages, n) ==
    IF n = 0 THEN <<>>
    ELSE InsertSorted(SortPrefix(messages, n - 1), messages[n])

\* Variant of line 149 that leaves the messages in the order of the traces.
SortByTimestamp_Unsorted(messages) == messages

\* Line 149: messages.sort(key=lambda x: x['timestamp'])
SortByTimestamp(messages) == SortPrefix(messages, Len(messages))

\* Lines 147-151: every thread's messages sorted, and the dict returned
SortThreads(threads) ==
    IF threads.raised THEN threads
    ELSE Ok([tid \in DOMAIN threads.val |->
                [threads.val[tid] EXCEPT !.messages = SortByTimestamp(@)]])

parse_session_to_chat_format(session) ==
    SortThreads(ThreadsAfter(session, Len(session.traces)))

(***************************************************************************)
(* get_session_chat_data                                                   *)
(***************************************************************************)
RECURSIVE SumMessages(_, _)

SumMessages(threads, tids) ==
    IF tids = {} THEN 0
    ELSE LET tid == CHOOSE t \in tids : TRUE
         IN  Len(threads[tid].messages) + SumMessages(threads, tids \ {tid})

\* A variant of lines 172-173 that counts the traces instead of the messages
ChatData_CountTraces(s, chat_threads) ==
    IF chat_threads.raised THEN chat_threads
    ELSE Ok([session_id |-> s.id,
             created_at |-> s.created_at,
             project_id |-> s.project_id,
             environment |-> s.environment,
             threads |-> chat_threads.val,
             total_threads |-> Cardinality(DOMAIN chat_threads.val),
             total_messages |-> Len(s.traces)])

\* Lines 166-174: the record built from the threads
ChatData(s, chat_threads) ==
    IF chat_threads.raised THEN chat_threads
    ELSE Ok([session_id |-> s.id,
             created_at |-> s.created_at,
             project_id |-> s.project_id,
             environment |-> s.environment,
             threads |-> chat_threads.val,
             total_threads |-> Cardinality(DOMAIN chat_threads.val),
             total_messages |-> SumMessages(chat_threads.val,
                                            DOMAIN chat_threads.val)])

get_session_chat_data(s) == ChatData(s, parse_session_to_chat_format(s))

(***************************************************************************)
(* The trace-paired transcript builder: get_input_message,                 *)
(* filter_output_messages, format_tool_input, simplify_output_messages and *)
(* build_chat_history.  core/tests.py imports them from                    *)
(* core.session_parser, which does not define them; they are modelled from *)
(* the specification (section 4.1) and from what the tests expect.         *)
(***************************************************************************)
\* Whether trace.input.messages exists, is a non-empty list and starts with
\* a message record
HasFirstInput(trace) ==
    /\ HasKey(trace.input, "messages")
    /\ IsList(trace.input.v["messages"])
    /\ trace.input.v["messages"].v # <<>>
    /\ IsDict(trace.input.v["messages"].v[1])

FirstInput(trace) == trace.input.v["messages"].v[1]

\* extractInputMessage: the content of the first message of input.messages;
\* an absent or empty input structure is an error
get_input_message(trace) ==
    IF HasFirstInput(trace) /\ HasKey(FirstInput(trace), "content")
    THEN Ok(FirstInput(trace).v["content"])
    ELSE Raise("MalformedTraceError")

\* Variant of EchoIndex that cuts at the last echo instead of the first.
EchoIndex_Last(trace, messages) ==
    LET hits == {i \in 1..Len(messages) :
                    /\ IsDict(messages[i])
                    /\ DictGet(messages[i], "type", PyNone) = PyStr("human")
                    /\ DictGet(messages[i], "id", PyNone)
                           = DictGet(FirstInput(trace), "id", PyNone)}
    IN  IF hits = {} THEN 0 ELSE CHOOSE i \in hits : \A j \in hits : i >= j

\* The index of the first output message that echoes the input (type human,
\* the id of input.messages[0]); 0 when there is none
EchoIndex(trace, messages) ==
    LET hits == {i \in 1..Len(messages) :
                    /\ IsDict(messages[i])
                    /\ DictGet(messages[i], "type", PyNone) = PyStr("human")
                    /\ DictGet(messages[i], "id", PyNone)
                           = DictGet(FirstInput(trace), "id", PyNone)}
    IN  IF hits = {} THEN 0 ELSE CHOOSE i \in hits : \A j \in hits : i <= j

\* filterResponseMessages: everything strictly after the echoed input, the
\* empty list when nothing matches
filter_output_messages(trace) ==
    IF ~HasFirstInput(trace)
           \/ ~HasKey(trace.output, "messages")
           \/ ~IsList(trace.output.v["messages"])
    THEN Raise("MalformedTraceError")
    ELSE LET messages == trace.output.v["messages"].v
             at == EchoIndex(trace, messages)
         IN  IF at = 0 THEN Ok(PyList(<<>>))
             ELSE Ok(PyList(SubSeq(messages, at + 1, Len(messages))))

RECURSIVE Serializable(_)

\* What json.dumps accepts: None, str, int, and lists and dicts of those
Serializable(x) ==
    CASE x.t = "list" -> \A i \in 1..Len(x.v) : Serializable(x.v[i])
      [] x.t = "dict" -> x.v = <<>> \/ \A k \in DOMAIN x.v : Serializable(x.v[k])
      [] x.t = "object" -> FALSE
      [] OTHER -> TRUE

RECURSIVE Indent(_)

\* The indentation json.dumps(indent=2) writes at a nesting depth
Indent(depth) == IF depth = 0 THEN "" ELSE "  " \o Indent(depth - 1)

RECURSIVE JsonDump(_, _), JsonItems(_, _, _), JsonMembers(_, _, _, _)

\* json.dumps(x, indent=2, ensure_ascii=False) of a serializable value, at
\* a nesting depth (the strings of the model need no escaping)
JsonDump(x, depth) ==
    CASE x.t = "None" -> "null"
      [] x.t = "str"  -> "\"" \o x.v \o "\""
      [] x.t = "int"  -> Digit(x.v)
      [] x.t = "bool" -> IF x.v THEN "true" ELSE "false"
      [] x.t = "list" ->
            IF x.v = <<>> THEN "[]"
            ELSE "[" \o JsonItems(x.v, 1, depth + 1)
                 \o "\n" \o Indent(depth) \o "]"
      [] x.t = "dict" ->
            IF x.v = <<>> THEN "{}"
            ELSE "{" \o JsonMembers(x.v, 1, TRUE, depth + 1)
                 \o "\n" \o Indent(depth) \o "}"

\* The items of a list, one per line
JsonItems(xs, i, depth) ==
    IF i > Len(xs) THEN ""
    ELSE (IF i > 1 THEN "," ELSE "") \o "\n" \o Indent(depth)
         \o JsonDump(xs[i], depth) \o JsonItems(xs, i + 1, depth)

\* The members of a dict, one per line
JsonMembers(f, i, first, depth) ==
    IF i > Len(KeyOrder) THEN ""
    ELSE IF KeyOrder[i] \in DOMAIN f
         THEN (IF first THEN "" ELSE ",") \o "\n" \o Indent(depth)
              \o "\"" \o KeyOrder[i] \o "\": "
              \o JsonDump(f[KeyOrder[i]], depth)
              \o JsonMembers(f, i + 1, FALSE, depth)
         ELSE JsonMembers(f, i + 1, first, depth)

\* json.dumps: TypeError for a value that holds a non-serializable object
json_dumps(x) ==
    IF Serializable(x) THEN Ok(PyStr(JsonDump(x, 0))) ELSE Raise("TypeError")

\* format_tool_input without the test for empty args
format_tool_input_NoEmptyCheck(args) ==
    LET dumped == json_dumps(args)
    IN  IF dumped.raised THEN PyStr(PyToStr(args)) ELSE dumped.val

\* formatToolInput: null for absent or empty args, else the pretty
\* serialization, and when that fails (not serializable) the plain string
\* rendering
format_tool_input(args) ==
    IF ~Truthy(args) THEN PyNone
    ELSE LET dumped == json_dumps(args)
         IN  IF dumped.raised THEN PyStr(PyToStr(args)) ELSE dumped.val

RECURSIVE ToolOutputs(_, _)

\* Step 1 of simplifyOutputMessages: tool_call_id -> content over the
\* tool-typed messages of the first n messages (a later one replaces an
\* earlier one with the same id)
ToolOutputs(messages, n) ==
    IF n = 0 THEN <<>>
    ELSE LET msg == messages[n]
             before == ToolOutputs(messages, n - 1)
         IN  IF IsDict(msg) /\ DictGet(msg, "type", PyNone) = PyStr("tool")
             THEN (DictGet(msg, "tool_call_id", PyNone)
                       :> DictGet(msg, "content", PyNone)) @@ before
             ELSE before

RECURSIVE TextsOfParts(_, _)

\* The text of every content part tagged type == 'text'
TextsOfParts(parts, i) ==
    IF i > Len(parts) THEN <<>>
    ELSE LET part == parts[i]
         IN  (IF /\ IsDict(part)
                 /\ DictGet(part, "type", PyNone) = PyStr("text")
                 /\ IsStr(DictGet(part, "text", PyNone))
              THEN <<part.v["text"]>> ELSE <<>>)
             \o TextsOfParts(parts, i + 1)

TaggedTextsOf(parts) == TextsOfParts(parts, 1)

RECURSIVE ToolItems_ByName(_, _, _)

\* Variant of ToolItems that looks the output up by the name of the call.
ToolItems_ByName(tool_calls, i, outputs) ==
    IF i > Len(tool_calls) THEN <<>>
    ELSE LET tc == tool_calls[i]
             tcname == DictGet(tc, "name", PyNone)
         IN  <<PyDict([tool |-> PyDict(
                   [id |-> DictGet(tc, "id", PyNone),
                    name |-> tcname,
                    input |-> format_tool_input(DictGet(tc, "args", PyNone)),
                    output |-> IF tcname \in DOMAIN outputs THEN outputs[tcname]
                               ELSE PyNone])])>>
             \o ToolItems_ByName(tool_calls, i + 1, outputs)

RECURSIVE ToolItems(_, _, _)

\* Step 2b: one tool item per entry of tool_calls, in the order given
ToolItems(tool_calls, i, outputs) ==
    IF i > Len(tool_calls) THEN <<>>
    ELSE LET tc == tool_calls[i]
             tcid == DictGet(tc, "id", PyNone)
         IN  <<PyDict([tool |-> PyDict(
                   [id |-> tcid,
                    name |-> DictGet(tc, "name", PyNone),
                    input |-> format_tool_input(DictGet(tc, "args", PyNone)),
                    output |-> IF tcid \in DOMAIN outputs THEN outputs[tcid]
                               ELSE PyNone])])>>
             \o ToolItems(tool_calls, i + 1, outputs)

\* Step 2a: the text item of an ai message, if it has any non-empty text
AiTextItems(msg) ==
    LET content == DictGet(msg, "content", PyList(<<>>))
        texts == IF IsList(content) THEN TaggedTextsOf(content.v) ELSE <<>>
        joined == JoinFrom(" ", texts, 1)
    IN  IF joined # "" THEN <<PyDict([ai |-> PyStr(joined)])>> ELSE <<>>

RECURSIVE SimplifyFrom_ToolsFirst(_, _, _)

\* Variant of SimplifyFrom that emits the tool items of an ai message before
\* its text item.
SimplifyFrom_ToolsFirst(messages, i, outputs) ==
    IF i > Len(messages) THEN <<>>
    ELSE LET msg == messages[i]
         IN  (IF IsDict(msg) /\ DictGet(msg, "type", PyNone) = PyStr("ai")
              THEN ToolItems(DictGet(msg, "tool_calls", PyList(<<>>)).v, 1,
                             outputs)
                   \o AiTextItems(msg)
              ELSE <<>>)
             \o SimplifyFrom_ToolsFirst(messages, i + 1, outputs)

RECURSIVE SimplifyFrom(_, _, _)

SimplifyFrom(messages, i, outputs) ==
    IF i > Len(messages) THEN <<>>
    ELSE LET msg == messages[i]
         IN  (IF IsDict(msg) /\ DictGet(msg, "type", PyNone) = PyStr("ai")
              THEN AiTextItems(msg)
                   \o ToolItems(DictGet(msg, "tool_calls", PyList(<<>>)).v, 1,
                                outputs)
              ELSE <<>>)
             \o SimplifyFrom(messages, i + 1, outputs)

simplify_output_messages(messages) ==
    PyList(SimplifyFrom(messages.v, 1, ToolOutputs(messages.v, Len(messages.v))))

RECURSIVE TimestampValue(_, _)

\* The time a timestamp of the one fixed-width format denotes
TimestampValue(ts, n) ==
    IF n = 0 THEN 0 ELSE 10 * TimestampValue(ts, n - 1) + ts[n]

parse_timestamp(ts) == TimestampValue(ts, Len(ts))

\* Where the stable sort by parsed timestamp puts trace x
InsertTrace(sorted, x) ==
    LET later == {p \in 1..Len(sorted) :
                      parse_timestamp(x.timestamp)
                          < parse_timestamp(sorted[p].timestamp)}
        at == IF later = {} THEN Len(sorted) + 1
              ELSE CHOOSE p \in later : \A q \in later : p <= q
    IN  SubSeq(sorted, 1, at - 1) \o <<x>> \o SubSeq(sorted, at, Len(sorted))

RECURSIVE SortTraces(_, _)

SortTraces(traces, n) ==
    IF n = 0 THEN <<>> ELSE InsertTrace(SortTraces(traces, n - 1), traces[n])

\* One ChatTranscriptEntry, or the error of a malformed trace
TranscriptEntry(trace) ==
    LET input == get_input_message(trace)
        filtered == filter_output_messages(trace)
    IN  IF input.raised THEN input
        ELSE IF filtered.raised THEN filtered
        ELSE Ok([trace_id |-> trace.id, input |-> input.val,
                 output |-> simplify_output_messages(filtered.val)])

RECURSIVE EntriesFrom(_, _)

EntriesFrom(traces, i) ==
    IF i > Len(traces) THEN Ok(<<>>)
    ELSE LET entry == TranscriptEntry(traces[i])
         IN  IF entry.raised THEN entry
             ELSE LET rest == EntriesFrom(traces, i + 1)
                  IN  IF rest.raised THEN rest
                      ELSE Ok(<<entry.val>> \o rest.val)

\* Variant of build_chat_history that loses the entry of the earliest trace.
build_chat_history_DropFirst(s) ==
    EntriesFrom(SortTraces(s.traces, Len(s.traces)), 2)

\* buildTranscript: the traces sorted by parsed timestamp, one entry each
build_chat_history(s) ==
    EntriesFrom(SortTraces(s.traces, Len(s.traces)), 1)

(***************************************************************************)
(* Inputs of extract_message_content: every shape of message the claims    *)
(* speak of.                                                               *)
(***************************************************************************)
TextPartA == PyDict([type |-> PyStr("text"), text |-> PyStr("a")])
TextPartB == PyDict([type |-> PyStr("text"), text |-> PyStr("b")])
TextPartNoText == PyDict([type |-> PyStr("text")])
TextPartNoneText == PyDict([type |-> PyStr("text"), text |-> PyNone])
ImagePart == PyDict([type |-> PyStr("image"), url |-> PyStr("u")])

Parts == {TextPartA, TextPartB, TextPartNoText, TextPartNoneText, ImagePart,
          PyStr("s"), PyInt(5)}

SeqsUpTo(S, n) == UNION {[1..k -> S] : k \in 0..n}

ContentValues ==
    {PyStr("hello"), PyStr(""), PyNone, PyInt(5), EmptyDict}
        \cup {PyList(ps) : ps \in SeqsUpTo(Parts, MaxParts)}

OneToolCall ==
    PyList(<<PyDict([id |-> PyStr("c1"), name |-> PyStr("search"),
                     args |-> PyDict([text |-> PyStr("q")])])>>)

\* A dict with the keys of ks only
Restrict(f, ks) == [k \in (DOMAIN f) \cap ks |-> f[k]]

DictMessages ==
    {PyDict(Restrict([type |-> PyStr("ai"), content |-> c, text |-> t,
                      tool_calls |-> OneToolCall], ks)) :
        c \in ContentValues, t \in {PyStr("T"), PyNone},
        ks \in {{"type"} \cup o : o \in SUBSET {"content", "text", "tool_calls"}}}

MessageData == {PyStr("plain"), PyNone, PyInt(5), PyList(<<>>), EmptyDict}
                   \cup DictMessages

(***************************************************************************)
(* Inputs of the session parser: the traces the API can return.            *)
(***************************************************************************)
Human(id, content) ==
    PyDict([id |-> PyStr(id), type |-> PyStr("human"), content |-> PyStr(content)])

ToolCall(id, name) ==
    PyDict([id |-> PyStr(id), name |-> PyStr(name),
            args |-> PyDict([text |-> PyStr("paris")])])

AiMessage(parts, calls) ==
    PyDict([type |-> PyStr("ai"), content |-> PyList(parts),
            tool_calls |-> PyList(calls)])

AiTextOnly(parts) == PyDict([type |-> PyStr("ai"), content |-> PyList(parts)])

ToolMessage(tool_call_id, content) ==
    PyDict([type |-> PyStr("tool"), tool_call_id |-> PyStr(tool_call_id),
            content |-> PyStr(content)])

Messages(msgs) == PyDict([messages |-> PyList(msgs)])

\* <<input, output>> of a trace
IONormal ==
    <<Messages(<<Human("m1", "Hi")>>),
      Messages(<<Human("m1", "Hi"),
                 AiMessage(<<TextPartA>>, <<ToolCall("c1", "search")>>),
                 ToolMessage("c1", "sunny")>>)>>

IOAbsent == <<PyNone, PyNone>>

IOJunk ==
    <<Messages(<<PyStr("junk"),
                 PyDict([type |-> PyStr("event"), text |-> PyStr("T")])>>),
      Messages(<<PyDict([type |-> PyStr("ai"), content |-> PyStr("hello")])>>)>>

IONoneText ==
    <<Messages(<<Human("m1", "Hi")>>),
      Messages(<<Human("m1", "Hi"), AiTextOnly(<<TextPartNoneText>>)>>)>>

IOVariants == {IONormal, IOAbsent, IOJunk, IONoneText}

\* <<session_id, metadata>> of a trace
Correlations ==
    {<<PyNone, PyNone>>,
     <<PyStr("s2"), PyNone>>,
     <<PyStr("s2"), PyDict([thread_id |-> PyStr("th1")])>>}

Timestamps == {<<0, 9>>, <<1, 0>>}

\* Trace ids are unique within a session
TraceIdOf(n) == "trace_" \o Digit(n)

(***************************************************************************)
(* Inputs of filter_output_messages and simplify_output_messages.          *)
(***************************************************************************)
OutputPool ==
    {Human("m1", "Hi"),
     Human("m2", "Hi"),
     PyDict([id |-> PyStr("m1"), type |-> PyStr("ai"),
             content |-> PyList(<<TextPartB>>)]),
     AiMessage(<<TextPartA>>, <<ToolCall("c1", "search"), ToolCall("c2", "fetch")>>),
     AiMessage(<<ImagePart>>, <<ToolCall("c2", "fetch")>>),
     AiTextOnly(<<TextPartA, ImagePart, TextPartB>>),
     ToolMessage("c1", "sunny"),
     ToolMessage("c2", "rain")}

OutputLists == SeqsUpTo(OutputPool, MaxMessages)

FilterTraces ==
    {Trace("trace_123", <<0, 9>>, Messages(<<Human("m1", "Hi")>>),
           Messages(out), PyNone, PyNone) : out \in OutputLists}

(***************************************************************************)
(* State: the last call, its argument and its result; the session the API  *)
(* client has built; the results of the builds made so far; the rows of    *)
(* the user table and of the group table.                                  *)
(***************************************************************************)
\* The request threads that run the builder at the same time
Workers == {"w1", "w2"}

\* A worker that runs no build
Idle == [busy |-> FALSE]

UserNames == {"admin", "user"}

GroupNames == {"annotation_users", "session_viewers", "editors"}

\* A row of accounts.User with the groups it is a member of
User(is_superuser, must_change_password, groups) ==
    [is_authenticated |-> TRUE, is_superuser |-> is_superuser,
     must_change_password |-> must_change_password, groups |-> groups]

\* django.contrib.auth.models.AnonymousUser: request.user without a login
AnonymousUser ==
    [is_authenticated |-> FALSE, is_superuser |-> FALSE, groups |-> {}]

\* The users and groups the test cases set up: a superuser, a regular user
\* without groups, both with the default must_change_password = True
FixtureUsers ==
    [name \in UserNames |-> User(name = "admin", TRUE, {})]

FixtureGroups == {"annotation_users", "session_viewers"}

(***************************************************************************)
(* core/permissions.py                                                     *)
(***************************************************************************)
\* user.groups.filter(name=name).exists()
InGroup(user, name) == name \in user.groups

\* A variant that accepts the membership of either tool group for any tool
user_has_tool_permission_AnyToolGroup(user, tool_name) ==
    \/ user.is_superuser
    \/ /\ tool_name \in {"annotation", "session_viewer"}
       /\ InGroup(user, "annotation_users") \/ InGroup(user, "session_viewers")

user_has_tool_permission(user, tool_name) ==
    IF user.is_superuser THEN TRUE
    ELSE IF tool_name = "annotation" THEN InGroup(user, "annotation_users")
    ELSE IF tool_name = "session_viewer" THEN InGroup(user, "session_viewers")
    ELSE FALSE

\* Group.objects.get(name=name): the group, or Group.DoesNotExist
GroupGet(name) ==
    IF name \in auth_group THEN Ok(name) ELSE Raise("Group.DoesNotExist")

\* A variant of line 112 that sets the groups of the user to the one group
assign_user_to_tool_SetGroups(user, tool_name) ==
    IF tool_name \notin {"annotation", "session_viewer"}
    THEN [result |-> Ok(PyBool(FALSE)), groups |-> user.groups]
    ELSE LET group == GroupGet(IF tool_name = "annotation"
                               THEN "annotation_users" ELSE "session_viewers")
         IN  IF group.raised
             THEN [result |-> Ok(PyBool(FALSE)), groups |-> user.groups]
             ELSE [result |-> Ok(PyBool(TRUE)), groups |-> {group.val}]

\* assign_user_to_tool: what it returns and the groups of the user after it
assign_user_to_tool(user, tool_name) ==
    IF tool_name \notin {"annotation", "session_viewer"}
    THEN [result |-> Ok(PyBool(FALSE)), groups |-> user.groups]
    ELSE LET group == GroupGet(IF tool_name = "annotation"
                               THEN "annotation_users" ELSE "session_viewers")
         IN  IF group.raised
             THEN [result |-> Ok(PyBool(FALSE)), groups |-> user.groups]
             ELSE [result |-> Ok(PyBool(TRUE)), groups |-> user.groups \cup {group.val}]

\* The tool names the callers pass
ToolNames == {"annotation", "session_viewer", "invalid_tool"}

\* request.user of a request: a user of the table, or the anonymous user
Anonymous == "anonymous"

RequestUser(who) == IF who = Anonymous THEN AnonymousUser ELSE users[who]

(***************************************************************************)
(* URLs (admin/urls.py, accounts/urls.py, annotation_tool/urls.py,         *)
(* session_viewer/urls.py).  A path is the sequence of its "/" and of the  *)
(* names between them, so that str.startswith with a prefix that ends in   *)
(* "/" is the prefix relation of sequences.                                *)
(***************************************************************************)
\* reverse(name) for the routes of accounts/urls.py
reverse(name) ==
    CASE name = "login"           -> <<"/", "login", "/">>
      [] name = "logout"          -> <<"/", "logout", "/">>
      [] name = "password_change" -> <<"/", "password-change", "/">>

\* path.startswith(prefix)
StartsWith(path, prefix) ==
    /\ Len(prefix) <= Len(path)
    /\ SubSeq(path, 1, Len(prefix)) = prefix

\* The view a path is routed to
Resolve(path) ==
    CASE path = <<"/">> -> "root_redirect"
      [] path = reverse("login") -> "login"
      [] path = reverse("logout") -> "logout"
      [] path = reverse("password_change") -> "password_change"
      [] path = <<"/", "dashboard", "/">> -> "dashboard"
      [] StartsWith(path, <<"/", "admin", "/">>) -> "admin_site"
      [] path = <<"/", "tools", "/", "annotation", "/">> -> "annotation_tool.index"
      [] path = <<"/", "tools", "/", "annotation", "/", "queues", "/">> ->
            "annotation_tool.queue_list"
      [] /\ Len(path) = 9
         /\ StartsWith(path,
                       <<"/", "tools", "/", "annotation", "/", "queues", "/">>)
         /\ path[8] # "/"
         /\ path[9] = "/" ->
            "annotation_tool.queue_detail"
      [] path = <<"/", "tools", "/", "sessions", "/">> -> "session_viewer.index"
      [] OTHER -> "not_found"

\* The tool views and the tool each is decorated with
ToolViews ==
    {"annotation_tool.index", "annotation_tool.queue_list",
     "annotation_tool.queue_detail", "annotation_tool.annotate_object",
     "session_viewer.index"}

ToolOf(view) ==
    IF view = "session_viewer.index" THEN "session_viewer" ELSE "annotation"

\* A response: a redirect to a named route or the page of a template, and
\* the view whose body has produced it ("none" for a response a decorator
\* or the middleware has made)
Redirect(to, executed) ==
    [kind |-> "redirect", to |-> to, executed |-> executed, context |-> PyNone]

Render(template, executed, context) ==
    [kind |-> "render", to |-> template, executed |-> executed,
     context |-> context]

\* What the body of a view returns, past its decorators.  The pages are
\* kept by their template; only annotate_object is followed into its
\* context (see annotate_object below).
ViewBody(view) ==
    CASE view = "root_redirect" -> Ok(Redirect("login", view))
      [] view = "logout" -> Ok(Redirect("login", view))
      [] view = "annotation_tool.index" ->
            Ok(Redirect("annotation_tool:queue_list", view))
      [] view = "annotation_tool.queue_list" ->
            Ok(Render("annotation_tool/queue_list.html", view, PyNone))
      [] view = "annotation_tool.queue_detail" ->
            Ok(Render("annotation_tool/queue_detail.html", view, PyNone))
      [] view = "session_viewer.index" ->
            Ok(Render("session_viewer/index.html", view, PyNone))
      [] view = "dashboard" -> Ok(Render("core/dashboard.html", view, PyNone))
      [] view = "not_found" -> Ok(Render("404", "none", PyNone))
      [] OTHER -> Ok(Render(view, view, PyNone))

\* @login_required: an anonymous request is sent to the login page
login_required(user, inner) ==
    IF user.is_authenticated THEN inner ELSE Ok(Redirect("login", "none"))

\* A variant of the wrapper of require_tool_permission that lets every
\* logged-in user through
require_tool_permission_NoCheck(user, tool_name, inner) == inner

\* The wrapper of require_tool_permission(tool_name)
require_tool_permission(user, tool_name, inner) ==
    IF ~user_has_tool_permission(user, tool_name)
    THEN Ok(Redirect("core:dashboard", "none"))
    ELSE inner

\* A view as it is called by the URL resolver, with its decorators; body is
\* what its body returns or raises
Decorated(view, user, body) ==
    IF view \in ToolViews
    THEN login_required(user, require_tool_permission(user, ToolOf(view), body))
    ELSE IF view \in {"dashboard", "password_change"}
    THEN login_required(user, body)
    ELSE body

\* CustomLoginView.get: with redirect_authenticated_user a logged-in user is
\* sent on to settings.LOGIN_REDIRECT_URL, another client gets the form
CustomLoginView(user) ==
    IF user.is_authenticated
    THEN Ok(Redirect("LOGIN_REDIRECT_URL", "login"))
    ELSE Ok(Render("registration/login.html", "login", PyNone))

(***************************************************************************)
(* core/views.py: the dashboard.                                           *)
(***************************************************************************)
\* Lines 18-39: the tools, by the fields the view and the page use
all_tools ==
    <<[name |-> "Annotation Tool",
       url |-> <<"/", "tools", "/", "annotation", "/">>,
       url_name |-> "annotation_tool:index"],
      [name |-> "Session Viewer",
       url |-> <<"/", "tools", "/", "sessions", "/">>,
       url_name |-> "session_viewer:index"]>>

\* 'annotation' in tool['url'], for the urls of all_tools
UrlContains(url, word) == \E i \in DOMAIN url : url[i] = word

RECURSIVE AvailableTools(_, _)

\* The loop of lines 43-48 from tool i on
AvailableTools(user, i) ==
    IF i > Len(all_tools) THEN <<>>
    ELSE LET tool == all_tools[i]
             tool_name == IF UrlContains(tool.url, "annotation")
                          THEN "annotation" ELSE "session_viewer"
         IN  (IF user_has_tool_permission(user, tool_name) THEN <<tool>>
              ELSE <<>>) \o AvailableTools(user, i + 1)

DashboardContext(available_tools) ==
    [tools |-> available_tools, total_tools |-> Len(all_tools),
     available_count |-> Len(available_tools)]

\* A variant of the dashboard that lists every tool
dashboard_AllTools(user) ==
    Ok(Render("core/dashboard.html", "dashboard", DashboardContext(all_tools)))

\* The body of dashboard
dashboard(user) ==
    Ok(Render("core/dashboard.html", "dashboard",
              DashboardContext(AvailableTools(user, 1))))

get_response(request) ==
    Decorated(Resolve(request.path), request.user,
              IF Resolve(request.path) = "dashboard"
              THEN dashboard(request.user)
              ELSE IF Resolve(request.path) = "login"
              THEN CustomLoginView(request.user)
              ELSE ViewBody(Resolve(request.path)))

(***************************************************************************)
(* annotate_object (annotation_tool/views.py).  An exception is kept as    *)
(* its class and its str().                                                *)
(***************************************************************************)
Exc(class, message) == [class |-> class, message |-> message]

\* The classes that are not subclasses of Exception
BaseOnly == {"KeyboardInterrupt", "SystemExit", "GeneratorExit"}

\* str.lower() and str.title() of the object types of the model
Lower(object_type) ==
    IF object_type \in {"session", "SESSION", "Session"} THEN "session"
    ELSE "trace"

Title(object_type) ==
    IF object_type \in {"session", "SESSION", "Session"} THEN "Session"
    ELSE "Trace"

\* Lines 207-217: the Session built from the response of the API
SessionFromResponse(session_data) ==
    IF ~IsDict(session_data)
    THEN Raise(Exc("TypeError",
                   "list indices must be integers or slices, not str"))
    ELSE IF ~HasKey(session_data, "id") THEN Raise(Exc("KeyError", "'id'"))
    ELSE IF ~HasKey(session_data, "createdAt")
    THEN Raise(Exc("KeyError", "'createdAt'"))
    ELSE IF ~HasKey(session_data, "projectId")
    THEN Raise(Exc("KeyError", "'projectId'"))
    ELSE Ok([id |-> session_data.v["id"],
             created_at |-> session_data.v["createdAt"],
             updated_at |-> DictGet(session_data, "updatedAt", PyStr("")),
             project_id |-> session_data.v["projectId"],
             public |-> DictGet(session_data, "public", PyBool(FALSE)),
             bookmarked |-> DictGet(session_data, "bookmarked", PyBool(FALSE)),
             traces |-> DictGet(session_data, "traces", PyList(<<>>))])

\* get_session_chat_data on a core.langfuse.models.Session: its traces are
\* the raw records of the API, which have no attribute session_id
\* (session_parser.py line 126), and the class has no field environment
\* (line 139 is not reached without a trace, line 170 is).
ChatDataOfApiSession(session) ==
    IF session.traces.t \in {"None", "int"}
    THEN Raise(Exc("TypeError", "'NoneType' object is not iterable"))
    ELSE IF Truthy(session.traces)
    THEN Raise(Exc("AttributeError",
                   "'dict' object has no attribute 'session_id'"))
    ELSE Raise(Exc("AttributeError",
                   "'Session' object has no attribute 'environment'"))

\* The try block of lines 205-220: the chat data, or the exception raised
LoadChatData(fetched) ==
    IF fetched.raised THEN fetched
    ELSE LET session == SessionFromResponse(fetched.val)
         IN  IF session.raised THEN session
             ELSE ChatDataOfApiSession(session.val)

AnnotateContext(queue_id, object_type, object_id, chat_data, error) ==
    [tool_name |-> "Annotate " \o Title(object_type) \o " - Admin Tools",
     queue_id |-> queue_id, object_type |-> object_type,
     object_id |-> object_id, chat_data |-> chat_data, error |-> error]

\* A variant of annotate_object without the handler of line 225
annotate_object_ApiErrorsOnly(queue_id, object_type, object_id, fetched) ==
    LET view == "annotation_tool.annotate_object"
        template == "annotation_tool/annotate_object.html"
    IN  IF Lower(object_type) # "session"
        THEN Ok(Render(template, view,
                       AnnotateContext(queue_id, object_type, object_id,
                                       PyNone, PyNone)))
        ELSE LET loaded == LoadChatData(fetched)
             IN  IF ~loaded.raised
                 THEN Ok(Render(template, view,
                         AnnotateContext(queue_id, object_type, object_id,
                                         loaded.val, PyNone)))
                 ELSE IF loaded.val.class = "LangfuseAPIError"
                 THEN Ok(Render(template, view,
                         AnnotateContext(queue_id, object_type, object_id,
                             PyNone,
                             PyStr("Failed to load session: "
                                   \o loaded.val.message))))
                 ELSE loaded

\* The body of annotate_object; fetched is what
\* langfuse_service.get_session(object_id) returns or raises
annotate_object(queue_id, object_type, object_id, fetched) ==
    LET view == "annotation_tool.annotate_object"
        template == "annotation_tool/annotate_object.html"
    IN  IF Lower(object_type) # "session"
        THEN Ok(Render(template, view,
                       AnnotateContext(queue_id, object_type, object_id,
                                       PyNone, PyNone)))
        ELSE LET loaded == LoadChatData(fetched)
             IN  IF ~loaded.raised
                 THEN Ok(Render(template, view,
                         AnnotateContext(queue_id, object_type, object_id,
                                         loaded.val, PyNone)))
                 ELSE IF loaded.val.class = "LangfuseAPIError"
                 THEN Ok(Render(template, view,
                         AnnotateContext(queue_id, object_type, object_id,
                             PyNone,
                             PyStr("Failed to load session: "
                                   \o loaded.val.message))))
                 ELSE IF loaded.val.class \notin BaseOnly
                 THEN Ok(Render(template, view,
                         AnnotateContext(queue_id, object_type, object_id,
                             PyNone,
                             PyStr("Unexpected error: "
                                   \o loaded.val.message))))
                 ELSE loaded

\* What langfuse_service.get_session returns (the JSON of the response) or
\* raises (core/langfuse/client.py, core/langfuse/service.py)
ApiSession(keys) ==
    PyDict(Restrict([id |-> PyStr("s1"), createdAt |-> PyStr("2024-01-01"),
                     projectId |-> PyStr("project_789"),
                     traces |-> PyList(<<PyDict([id |-> PyStr("trace_1")])>>)],
                    keys))

FetchOutcomes ==
    { Raise(Exc("LangfuseAPIError", "API request failed: 404")),
      Raise(Exc("LangfuseAPIError", "")),
      Raise(Exc("ConnectError", "All connection attempts failed")),
      Raise(Exc("ReadTimeout", "")),
      Raise(Exc("JSONDecodeError", "Expecting value: line 1 column 1 (char 0)")),
      Ok(ApiSession({"id", "createdAt", "projectId", "traces"})),
      Ok(ApiSession({"id", "createdAt", "projectId"})),
      Ok(ApiSession({"createdAt", "projectId", "traces"})),
      Ok(PyList(<<>>)) }

ObjectTypes == {"session", "SESSION", "trace"}

(***************************************************************************)
(* accounts/middleware.py                                                  *)
(***************************************************************************)
\* A variant of exempt_urls without the password change page
exempt_urls_NoPasswordChange ==
    <<reverse("login"), reverse("logout"),
      <<"/", "admin", "/">>, <<"/", "static", "/">>, <<"/", "media", "/">>>>

\* ForcePasswordChangeMiddleware.__init__
exempt_urls ==
    <<reverse("password_change"), reverse("login"), reverse("logout"),
      <<"/", "admin", "/">>, <<"/", "static", "/">>, <<"/", "media", "/">>>>

is_exempt(path) ==
    \E i \in DOMAIN exempt_urls : StartsWith(path, exempt_urls[i])

\* hasattr(user, name)
HasAttr(user, name) == name \in DOMAIN user

\* A variant of ForcePasswordChangeMiddleware.__call__ that never redirects
\* a superuser
ForcePasswordChangeMiddleware_SuperuserFree(request) ==
    IF /\ request.user.is_authenticated
       /\ HasAttr(request.user, "must_change_password")
       /\ request.user.must_change_password
       /\ ~is_exempt(request.path)
       /\ ~request.user.is_superuser
    THEN Ok(Redirect("password_change", "none"))
    ELSE get_response(request)

\* ForcePasswordChangeMiddleware.__call__
ForcePasswordChangeMiddleware(request) ==
    IF /\ request.user.is_authenticated
       /\ HasAttr(request.user, "must_change_password")
       /\ request.user.must_change_password
       /\ ~is_exempt(request.path)
    THEN IF /\ StartsWith(request.path, <<"/", "admin", "/">>)
            /\ request.user.is_superuser
         THEN get_response(request)
         ELSE Ok(Redirect("password_change", "none"))
    ELSE get_response(request)

(***************************************************************************)
(* accounts/views.py: CustomPasswordChangeView, and accounts/admin.py:     *)
(* CustomUserAdmin.  A handler gives its response and the value of         *)
(* must_change_password it leaves in the user's row.                       *)
(***************************************************************************)
\* A variant of form_valid that leaves the flag as it is
form_valid_KeepFlag(user) ==
    [response |-> Ok(Redirect("core:dashboard", "password_change")),
     must_change_password |-> user.must_change_password]

\* CustomPasswordChangeView.form_valid: the new password is saved and the
\* redirect to success_url made (line 38), then the flag is cleared
form_valid(user) ==
    [response |-> Ok(Redirect("core:dashboard", "password_change")),
     must_change_password |->
        IF HasAttr(user, "must_change_password") THEN FALSE
        ELSE user.must_change_password]

\* PasswordChangeView.post behind login_required: an invalid form is shown
\* again with its errors
PasswordChangePost(user, form_is_valid) ==
    IF ~user.is_authenticated
    THEN [response |-> Ok(Redirect("login", "none")),
          must_change_password |-> FALSE]
    ELSE IF form_is_valid THEN form_valid(user)
    ELSE [response |-> Ok(Render("accounts/password_change.html",
                                 "password_change", PyNone)),
          must_change_password |-> user.must_change_password]

\* The middleware has passed the request on to the view
PassedOn(request) ==
    ForcePasswordChangeMiddleware(request) = get_response(request)

\* The user list of the admin site with list_editable must_change_password,
\* posted by a staff user (the superuser of the model); another user is sent
\* to the login page of the admin site
ChangelistPost(actor, target, value) ==
    IF actor.is_authenticated /\ actor.is_superuser
    THEN [response |-> Ok(Redirect("admin:accounts_user_changelist",
                                   "admin_site")),
          must_change_password |-> value]
    ELSE [response |-> Ok(Redirect("admin:login", "admin_site")),
          must_change_password |-> target.must_change_password]

(***************************************************************************)
(* annotation_tool/utils.py: the Langfuse API of the annotation queues.    *)
(***************************************************************************)
\* getattr(settings, name, None)
GetSetting(settings, name) ==
    IF name \in DOMAIN settings THEN settings[name] ELSE PyNone

\* str.encode('ascii') succeeds; "{U+00E9}" stands for the one character
\* of the model beyond ASCII
IsAscii(text) == text \notin {"cl{U+00E9}"}

\* base64.b64encode(...).decode('ascii') of the strings of the model
B64Encode(text) ==
    CASE text = "pk:sk" -> "cGs6c2s="
      [] text = "pk:" -> "cGs6"
      [] text = ":sk" -> "OnNr"
      [] OTHER -> "base64(" \o text \o ")"

get_auth_header(settings) ==
    LET public_key == GetSetting(settings, "LANGFUSE_PUBLIC_KEY")
        secret_key == GetSetting(settings, "LANGFUSE_SECRET_KEY")
    IN  IF ~Truthy(public_key) \/ ~Truthy(secret_key)
        THEN Raise(Exc("LangfuseAPIError",
                 "Langfuse API credentials not configured in settings"))
        ELSE LET auth_string == public_key.v \o ":" \o secret_key.v
             IN  IF ~IsAscii(public_key.v) \/ ~IsAscii(secret_key.v)
                 THEN Raise(Exc("UnicodeEncodeError",
                          "'ascii' codec can't encode character"))
                 ELSE Ok(PyStr(B64Encode(auth_string)))

\* The subclasses of httpx.RequestError the client raises
RequestErrors == {"ConnectError", "ReadTimeout", "ConnectTimeout"}

\* response.raise_for_status() passes
IsSuccess(status_code) == status_code \div 100 = 2

\* str(status_code) of a three-digit status
StatusText(status_code) ==
    Digit(status_code \div 100) \o Digit((status_code \div 10) % 10)
        \o Digit(status_code % 10)

\* A variant of the body of the fetch functions that converts the HTTP
\* status errors only
FetchJson_HttpOnly(settings, exchange, queue_id, named_queue) ==
    LET auth_header == get_auth_header(settings)
    IN  IF auth_header.raised THEN auth_header
        ELSE IF exchange.raised THEN exchange
        ELSE IF ~IsSuccess(exchange.val.status_code)
        THEN IF named_queue /\ exchange.val.status_code = 404
             THEN Raise(Exc("LangfuseAPIError",
                      "Annotation queue '" \o queue_id \o "' not found"))
             ELSE Raise(Exc("LangfuseAPIError",
                      "API request failed with status "
                          \o StatusText(exchange.val.status_code)))
        ELSE exchange.val.json

\* The body the three fetch functions share: the authentication header, the
\* GET request, raise_for_status and response.json(), and the handlers that
\* turn every Exception into LangfuseAPIError.  exchange is what the GET
\* request returns or raises; named_queue says that a 404 is reported as a
\* queue that was not found (fetch_annotation_queue, fetch_queue_items).
FetchJson(settings, exchange, queue_id, named_queue) ==
    LET auth_header == get_auth_header(settings)
    IN  IF auth_header.raised
        THEN Raise(Exc("LangfuseAPIError",
                 "Unexpected error: " \o auth_header.val.message))
        ELSE IF exchange.raised
        THEN IF exchange.val.class \in RequestErrors
             THEN Raise(Exc("LangfuseAPIError",
                      "Failed to connect to Langfuse API: "
                          \o exchange.val.message))
             ELSE IF exchange.val.class \in BaseOnly THEN exchange
             ELSE Raise(Exc("LangfuseAPIError",
                      "Unexpected error: " \o exchange.val.message))
        ELSE IF ~IsSuccess(exchange.val.status_code)
        THEN IF named_queue /\ exchange.val.status_code = 404
             THEN Raise(Exc("LangfuseAPIError",
                      "Annotation queue '" \o queue_id \o "' not found"))
             ELSE Raise(Exc("LangfuseAPIError",
                      "API request failed with status "
                          \o StatusText(exchange.val.status_code)))
        ELSE IF exchange.val.json.raised
        THEN Raise(Exc("LangfuseAPIError",
                 "Unexpected error: " \o exchange.val.json.val.message))
        ELSE exchange.val.json

fetch_annotation_queues(settings, exchange, page, limit) ==
    FetchJson(settings, exchange, "", FALSE)

fetch_annotation_queue(settings, exchange, queue_id) ==
    FetchJson(settings, exchange, queue_id, TRUE)

fetch_queue_items(settings, exchange, queue_id, status, page, limit) ==
    FetchJson(settings, exchange, queue_id, TRUE)

\* The record the list wrappers return for a LangfuseAPIError
ErrorList(message, page, limit) ==
    PyDict([error |-> PyBool(TRUE),
            message |-> PyStr(message),
            data |-> PyList(<<>>),
            meta |-> PyDict([page |-> page,
                             limit |-> IF Truthy(limit) THEN limit
                                       ELSE PyInt(50),
                             totalItems |-> PyInt(0),
                             totalPages |-> PyInt(0)])])

get_annotation_queues(settings, exchange, page, limit) ==
    LET fetched == fetch_annotation_queues(settings, exchange, page, limit)
    IN  IF fetched.raised /\ fetched.val.class = "LangfuseAPIError"
        THEN Ok(ErrorList(fetched.val.message, page, limit))
        ELSE fetched

get_annotation_queue(settings, exchange, queue_id) ==
    LET fetched == fetch_annotation_queue(settings, exchange, queue_id)
    IN  IF fetched.raised /\ fetched.val.class = "LangfuseAPIError"
        THEN Ok(PyDict([error |-> PyBool(TRUE),
                        message |-> PyStr(fetched.val.message),
                        id |-> PyStr(queue_id),
                        name |-> PyStr("Queue Not Found"),
                        description |-> PyNone]))
        ELSE fetched

get_queue_items(settings, exchange, queue_id, status, page, limit) ==
    LET fetched == fetch_queue_items(settings, exchange, queue_id, status,
                                     page, limit)
    IN  IF fetched.raised /\ fetched.val.class = "LangfuseAPIError"
        THEN Ok(ErrorList(fetched.val.message, page, limit))
        ELSE fetched

\* The Langfuse settings of a deployment: the keys set, one of them None or
\* empty, or a key that is not ASCII
LangfuseSettings ==
    { [LANGFUSE_PUBLIC_KEY |-> PyStr("pk"), LANGFUSE_SECRET_KEY |-> PyStr("sk")],
      [LANGFUSE_PUBLIC_KEY |-> PyNone, LANGFUSE_SECRET_KEY |-> PyNone],
      [LANGFUSE_PUBLIC_KEY |-> PyStr("pk"), LANGFUSE_SECRET_KEY |-> PyStr("")],
      [LANGFUSE_PUBLIC_KEY |-> PyStr("cl{U+00E9}"), LANGFUSE_SECRET_KEY |-> PyStr("sk")] }

\* What the GET request returns (the status and what response.json() gives)
\* or raises
Response(status_code, json) == Ok([status_code |-> status_code, json |-> json])

Exchanges ==
    { Response(200, Ok(PyDict([data |-> PyList(<<>>),
                               meta |-> PyDict([totalItems |-> PyInt(0)])]))),
      Response(200, Ok(PyDict([id |-> PyStr("q1"), name |-> PyStr("Queue")]))),
      Response(200, Raise(Exc("JSONDecodeError",
                              "Expecting value: line 1 column 1 (char 0)"))),
      Response(401, Ok(PyDict([message |-> PyStr("Unauthorized")]))),
      Response(404, Ok(PyDict([message |-> PyStr("Not found")]))),
      Response(500, Raise(Exc("JSONDecodeError",
                              "Expecting value: line 1 column 1 (char 0)"))),
      Raise(Exc("ConnectError", "All connection attempts failed")),
      Raise(Exc("ReadTimeout", "")),
      Raise(Exc("RuntimeError", "Event loop is closed")) }

QueueIds == {"q1", "q2"}
Pages == {PyInt(1), PyInt(2)}
Limits == {PyNone, PyInt(0), PyInt(5)}
Statuses == {PyNone, PyStr("PENDING")}

\* The paths requested
Paths ==
    { <<"/">>,
      <<"/", "login", "/">>,
      <<"/", "logout", "/">>,
      <<"/", "password-change", "/">>,
      <<"/", "dashboard", "/">>,
      <<"/", "admin", "/">>,
      <<"/", "admin", "/", "accounts", "/", "user", "/">>,
      <<"/", "administrator", "/">>,
      <<"/", "static", "/", "app.css">>,
      <<"/", "media", "/", "logo.png">>,
      <<"/", "tools", "/", "annotation", "/">>,
      <<"/", "tools", "/", "annotation", "/", "queues", "/">>,
      <<"/", "tools", "/", "annotation", "/", "queues", "/", "q1", "/">>,
      <<"/", "tools", "/", "sessions", "/">> }

InitCall ==
    /\ call = "none"
    /\ arg = PyNone
    /\ ret = Ok(PyNone)

EmptySession(env) ==
    [id |-> "session_456", created_at |-> "2024-01-01T11:30:00Z",
     project_id |-> "project_789", environment |-> env, traces |-> <<>>]

Init ==
    /\ InitCall
    /\ \E env \in {PyNone, PyStr("production")} : fetched_session = EmptySession(env)
    /\ running = [w \in Workers |-> Idle]
    /\ builds = <<>>
    /\ users = FixtureUsers
    /\ auth_group = FixtureGroups

\* A call is made when no call is in progress, and Return ends it.
ExtractMessageContent ==
    /\ call = "none"
    /\ \E m \in MessageData :
        /\ call' = "extract_message_content"
        /\ arg' = m
        /\ ret' = extract_message_content(m)
    /\ UNCHANGED <<fetched_session, running, builds, users, auth_group>>

Return ==
    /\ call # "none"
    /\ call' = "none"
    /\ arg' = PyNone
    /\ ret' = Ok(PyNone)
    /\ UNCHANGED <<fetched_session, running, builds, users, auth_group>>

\* The loop of LangfuseClient.get_session that builds the traces of the
\* session, one Trace per record of the response.
AddTrace ==
    /\ call = "none"
    /\ Len(fetched_session.traces) < MaxTraces
    /\ \E ts \in Timestamps, io \in IOVariants, corr \in Correlations :
          fetched_session' =
              [fetched_session EXCEPT !.traces =
                  Append(@, Trace(TraceIdOf(Len(@) + 1), ts, io[1], io[2],
                                  corr[1], corr[2]))]
    /\ UNCHANGED <<call, arg, ret, running, builds, users, auth_group>>

GetSessionChatData ==
    /\ call = "none"
    /\ call' = "get_session_chat_data"
    /\ arg' = fetched_session
    /\ ret' = get_session_chat_data(fetched_session)
    /\ UNCHANGED <<fetched_session, running, builds, users, auth_group>>

BuildChatHistory ==
    /\ call = "none"
    /\ call' = "build_chat_history"
    /\ arg' = fetched_session
    /\ ret' = build_chat_history(fetched_session)
    /\ UNCHANGED <<fetched_session, running, builds, users, auth_group>>

FilterOutputMessages ==
    /\ call = "none"
    /\ \E trace \in FilterTraces :
          /\ call' = "filter_output_messages"
          /\ arg' = trace
          /\ ret' = filter_output_messages(trace)
    /\ UNCHANGED <<fetched_session, running, builds, users, auth_group>>

\* The args a tool call can carry
ToolArgs ==
    { PyNone, EmptyDict, PyObject,
      PyDict([name |-> PyStr("Paris")]),
      PyDict([name |-> PyStr("Paris"), text |-> PyStr("France")]),
      PyDict([name |-> PyStr("Paris"), args |-> PyList(<<PyInt(1), PyNone>>)]),
      PyDict([name |-> PyObject]),
      PyList(<<PyStr("Paris"), PyObject>>),
      PyDict([args |-> EmptyDict]) }

FormatToolInput ==
    /\ call = "none"
    /\ \E args \in ToolArgs :
          /\ call' = "format_tool_input"
          /\ arg' = args
          /\ ret' = Ok(format_tool_input(args))
    /\ UNCHANGED <<fetched_session, running, builds, users, auth_group>>

SimplifyOutputMessages ==
    /\ call = "none"
    /\ \E messages \in OutputLists :
          /\ call' = "simplify_output_messages"
          /\ arg' = PyList(messages)
          /\ ret' = Ok(simplify_output_messages(PyList(messages)))
    /\ UNCHANGED <<fetched_session, running, builds, users, auth_group>>

\* The sessions the concurrent builds are made from: two with the same id
\* and different traces, two with the same traces in a different order, one
\* with a message the parser raises on
SessionWith(id, traces) ==
    [EmptySession(PyStr("production")) EXCEPT !.id = id, !.traces = traces]

PoolTraceA ==
    Trace("trace_1", <<1, 0>>, IONormal[1], IONormal[2], PyNone, PyNone)

PoolTraceB ==
    Trace("trace_2", <<0, 9>>, IONormal[1], IONormal[2], PyStr("s2"),
          PyDict([thread_id |-> PyStr("th1")]))

PoolTraceBad ==
    Trace("trace_3", <<0, 9>>, IONoneText[1], IONoneText[2], PyNone, PyNone)

SessionPool ==
    { SessionWith("session_456", <<PoolTraceA>>),
      SessionWith("session_456", <<PoolTraceA, PoolTraceB>>),
      SessionWith("session_789", <<PoolTraceB, PoolTraceA>>),
      SessionWith("session_789", <<PoolTraceA, PoolTraceBad>>) }

Busy == {w \in Workers : running[w].busy}

\* A worker enters get_session_chat_data with a session: line 122 gives the
\* call its threads dict.  `given` keeps the session as it was passed and
\* `finished_before` the number of builds that had ended by then.
StartBuild(w) ==
    /\ ~running[w].busy
    /\ Len(builds) + Cardinality(Busy) < MaxBuilds
    /\ \E s \in SessionPool :
          running' = [running EXCEPT ![w] =
              [busy |-> TRUE, given |-> s, session |-> s, n |-> 0,
               threads |-> NewThreads, finished_before |-> Len(builds)]]
    /\ UNCHANGED <<call, arg, ret, fetched_session, builds, users, auth_group>>

\* One pass of the loop over session.traces (lines 124-145); it reads the
\* session and writes the threads dict of the call only.
ParseNextTrace(w) ==
    /\ running[w].busy
    /\ ~running[w].threads.raised
    /\ running[w].n < Len(running[w].session.traces)
    /\ running' = [running EXCEPT
          ![w].n = @ + 1,
          ![w].threads = ThreadsStep(@, running[w].session, running[w].n + 1)]
    /\ UNCHANGED <<call, arg, ret, fetched_session, builds, users, auth_group>>

\* The loop has ended or raised: lines 147-151 and 166-174 build the result
FinishBuild(w) ==
    /\ running[w].busy
    /\ \/ running[w].threads.raised
       \/ running[w].n = Len(running[w].session.traces)
    /\ builds' = Append(builds,
          [given |-> running[w].given,
           session |-> running[w].session,
           finished_before |-> running[w].finished_before,
           result |-> ChatData(running[w].session,
                               SortThreads(running[w].threads))])
    /\ running' = [running EXCEPT ![w] = Idle]
    /\ UNCHANGED <<call, arg, ret, fetched_session, users, auth_group>>

NextBuilds ==
    \E w \in Workers : StartBuild(w) \/ ParseNextTrace(w) \/ FinishBuild(w)

SpecBuilds == Init /\ [][NextBuilds]_vars

\* The user and group tables the portal can run with: "admin" is a
\* superuser, "user" is not; a user is a member of existing groups only.
InitWeb ==
    /\ InitCall
    /\ fetched_session = EmptySession(PyNone)
    /\ running = [w \in Workers |-> Idle]
    /\ builds = <<>>
    /\ auth_group \in SUBSET GroupNames
    /\ \E admin_flag, user_flag \in BOOLEAN, user_groups \in SUBSET auth_group :
          users = [name \in UserNames |->
                      IF name = "admin" THEN User(TRUE, admin_flag, {})
                      ELSE User(FALSE, user_flag, user_groups)]

UserHasToolPermission ==
    /\ call = "none"
    /\ \E who \in UserNames \cup {Anonymous}, tool_name \in ToolNames :
          /\ call' = "user_has_tool_permission"
          /\ arg' = [user |-> RequestUser(who), tool_name |-> tool_name]
          /\ ret' = Ok(PyBool(user_has_tool_permission(RequestUser(who),
                                                        tool_name)))
    /\ UNCHANGED <<fetched_session, running, builds, users, auth_group>>

\* arg keeps the user table as it was when the call was made
AssignUserToTool ==
    /\ call = "none"
    /\ \E who \in UserNames, tool_name \in ToolNames :
          LET assigned == assign_user_to_tool(users[who], tool_name)
          IN  /\ call' = "assign_user_to_tool"
              /\ arg' = [username |-> who, tool_name |-> tool_name,
                         users_before |-> users]
              /\ ret' = assigned.result
              /\ users' = [users EXCEPT ![who].groups = assigned.groups]
    /\ UNCHANGED <<fetched_session, running, builds, auth_group>>

\* A request passes the middleware and, if it lets it, the routed view
Request ==
    /\ call = "none"
    /\ \E who \in UserNames \cup {Anonymous}, path \in Paths :
          LET request == [user |-> RequestUser(who), path |-> path,
                          username |-> who, via |-> Redirect("none", "none")]
          IN  /\ call' = "request"
              /\ arg' = request
              /\ ret' = ForcePasswordChangeMiddleware(request)
    /\ UNCHANGED <<fetched_session, running, builds, users, auth_group>>

\* annotate_object as the URL resolver calls it, with its decorators
AnnotateObject ==
    /\ call = "none"
    /\ \E who \in UserNames \cup {Anonymous}, object_type \in ObjectTypes,
          fetched \in FetchOutcomes :
          /\ call' = "annotate_object"
          /\ arg' = [user |-> RequestUser(who), object_type |-> object_type,
                     fetched |-> fetched]
          /\ ret' = Decorated("annotation_tool.annotate_object",
                              RequestUser(who),
                              annotate_object("q1", object_type, "s1", fetched))
    /\ UNCHANGED <<fetched_session, running, builds, users, auth_group>>

\* POST of the password change form by who: the middleware, then the view
PostPasswordChange(who, form_is_valid) ==
    LET request == [user |-> RequestUser(who),
                    path |-> reverse("password_change"),
                    username |-> who]
        posted == PasswordChangePost(request.user, form_is_valid)
    IN  /\ call' = "password_change"
        /\ arg' = [user |-> request.user, path |-> request.path,
                   username |-> who, form_is_valid |-> form_is_valid,
                   users_before |-> users]
        /\ IF PassedOn(request)
           THEN /\ ret' = posted.response
                /\ users' = IF who = Anonymous THEN users
                            ELSE [users EXCEPT
                                     ![who].must_change_password =
                                         posted.must_change_password]
           ELSE /\ ret' = ForcePasswordChangeMiddleware(request)
                /\ users' = users
        /\ UNCHANGED <<fetched_session, running, builds, auth_group>>

\* POST of the password change form by a logged-in or anonymous client
PasswordChange ==
    /\ call = "none"
    /\ \E who \in UserNames \cup {Anonymous}, form_is_valid \in BOOLEAN :
          PostPasswordChange(who, form_is_valid)

\* POST of the user list of the admin site with must_change_password of one
\* user edited
AdminChangelist ==
    /\ call = "none"
    /\ \E who \in UserNames, target \in UserNames, value \in BOOLEAN :
          LET request == [user |-> users[who],
                          path |-> <<"/", "admin", "/", "accounts", "/",
                                     "user", "/">>,
                          username |-> who]
              posted == ChangelistPost(users[who], users[target], value)
          IN  /\ call' = "admin_changelist"
              /\ arg' = [user |-> request.user, path |-> request.path,
                         username |-> who, target |-> target,
                         value |-> value, users_before |-> users]
              /\ IF PassedOn(request)
                 THEN /\ ret' = posted.response
                      /\ users' = [users EXCEPT
                                      ![target].must_change_password =
                                          posted.must_change_password]
                 ELSE /\ ret' = ForcePasswordChangeMiddleware(request)
                      /\ users' = users
    /\ UNCHANGED <<fetched_session, running, builds, auth_group>>

NextWeb ==
    \/ UserHasToolPermission
    \/ AssignUserToTool
    \/ Request
    \/ AnnotateObject
    \/ PasswordChange
    \/ AdminChangelist
    \/ Return

SpecWeb == InitWeb /\ [][NextWeb]_vars

GetAnnotationQueues ==
    /\ call = "none"
    /\ \E settings \in LangfuseSettings, exchange \in Exchanges,
          page \in Pages, limit \in Limits :
          /\ call' = "get_annotation_queues"
          /\ arg' = [settings |-> settings, exchange |-> exchange,
                     page |-> page, limit |-> limit]
          /\ ret' = get_annotation_queues(settings, exchange, page, limit)
    /\ UNCHANGED <<fetched_session, running, builds, users, auth_group>>

GetAnnotationQueue ==
    /\ call = "none"
    /\ \E settings \in LangfuseSettings, exchange \in Exchanges,
          queue_id \in QueueIds :
          /\ call' = "get_annotation_queue"
          /\ arg' = [settings |-> settings, exchange |-> exchange,
                     queue_id |-> queue_id]
          /\ ret' = get_annotation_queue(settings, exchange, queue_id)
    /\ UNCHANGED <<fetched_session, running, builds, users, auth_group>>

GetQueueItems ==
    /\ call = "none"
    /\ \E settings \in LangfuseSettings, exchange \in Exchanges,
          queue_id \in QueueIds, status \in Statuses,
          page \in Pages, limit \in Limits :
          /\ call' = "get_queue_items"
          /\ arg' = [settings |-> settings, exchange |-> exchange,
                     queue_id |-> queue_id, status |-> status,
                     page |-> page, limit |-> limit]
          /\ ret' = get_queue_items(settings, exchange, queue_id, status,
                                    page, limit)
    /\ UNCHANGED <<fetched_session, running, builds, users, auth_group>>

NextQueues ==
    \/ GetAnnotationQueues
    \/ GetAnnotationQueue
    \/ GetQueueItems
    \/ Return

SpecQueues == Init /\ [][NextQueues]_vars

\* The sessions the thread mode is checked on: every trace has its own id
\* and one of two timestamps, messages that parse, and one of the ways a
\* trace is correlated (<<session_id, metadata>>): none, a session id, an
\* empty session id, metadata with and without thread_id, and a thread_id
\* that is None or a list.
ThreadCorrelations ==
    Correlations \cup
    {<<PyNone, PyDict([thread_id |-> PyStr("th1")])>>,
     <<PyStr("s2"), PyDict([name |-> PyStr("run")])>>,
     <<PyStr(""), PyNone>>,
     <<PyStr("s2"), PyDict([thread_id |-> PyNone])>>,
     <<PyStr("s2"), PyDict([thread_id |-> PyList(<<PyStr("th1")>>)])>>}

ThreadTraceShapes == Timestamps \X {IONormal, IOJunk} \X ThreadCorrelations

ThreadSessions ==
    {SessionWith("session_456",
                 [n \in DOMAIN shapes |->
                     Trace(TraceIdOf(n), shapes[n][1], shapes[n][2][1],
                           shapes[n][2][2], shapes[n][3][1], shapes[n][3][2])]) :
        shapes \in SeqsUpTo(ThreadTraceShapes, MaxTraces)}

InitThreads ==
    /\ InitCall
    /\ fetched_session \in ThreadSessions
    /\ running = [w \in Workers |-> Idle]
    /\ builds = <<>>
    /\ users = FixtureUsers
    /\ auth_group = FixtureGroups

NextThreads == GetSessionChatData \/ Return

SpecThreads == InitThreads /\ [][NextThreads]_vars

\* The traces parse_trace_messages is called on: each side is absent, a
\* dict without messages, or a list of messages of these kinds: human, ai,
\* a message without type, one that is no dict, an ai message whose text is
\* None
TraceMessagePool ==
    {Human("m1", "Hi"),
     PyDict([type |-> PyStr("ai"), content |-> PyStr("hello")]),
     PyDict([text |-> PyStr("T")]),
     AiTextOnly(<<TextPartNoneText>>)}

TraceSides ==
    {PyNone, PyDict([name |-> PyStr("run")]),
     Messages(<<PyStr("junk"), ToolMessage("c1", "sunny")>>)}
        \cup {Messages(msgs) : msgs \in SeqsUpTo(TraceMessagePool, MaxMessages)}

ParseTraceMessages ==
    /\ call = "none"
    /\ \E input \in TraceSides, output \in TraceSides :
          LET trace == Trace("trace_1", <<0, 9>>, input, output, PyNone, PyNone)
          IN  /\ call' = "parse_trace_messages"
              /\ arg' = trace
              /\ ret' = parse_trace_messages(trace)
    /\ UNCHANGED <<fetched_session, running, builds, users, auth_group>>

NextTrace == ParseTraceMessages \/ Return

SpecTrace == Init /\ [][NextTrace]_vars

NextOutput ==
    \/ FilterOutputMessages
    \/ SimplifyOutputMessages
    \/ FormatToolInput
    \/ Return

SpecOutput == Init /\ [][NextOutput]_vars

NextContent == ExtractMessageContent \/ Return

NextSession == AddTrace \/ GetSessionChatData \/ BuildChatHistory \/ Return

SpecSession == Init /\ [][NextSession]_vars

(***************************************************************************)
(* A browser session under the forced password change.  The browser        *)
(* follows every redirect it is answered with; a user who is shown the     *)
(* password change page while must_change_password is True stays on it and *)
(* posts the form, in the end with valid data.  The admin site does not    *)
(* set the flag again in the meantime.                                     *)
(***************************************************************************)
\* The paths a redirect target stands for.  settings.LOGIN_REDIRECT_URL is
\* the dashboard or the default of the framework, which no route matches.
RouteTargets(to) ==
    CASE to \in {"login", "password_change"} -> {reverse(to)}
      [] to = "core:dashboard" -> {<<"/", "dashboard", "/">>}
      [] to = "annotation_tool:queue_list" ->
            {<<"/", "tools", "/", "annotation", "/", "queues", "/">>}
      [] to = "LOGIN_REDIRECT_URL" ->
            {<<"/", "dashboard", "/">>,
             <<"/", "accounts", "/", "profile", "/">>}

\* The response is a redirect the browser has yet to follow
RedirectPending ==
    /\ call \in {"request", "password_change"}
    /\ ~ret.raised
    /\ ret.val.kind = "redirect"

\* The password change page is shown
PasswordChangePage ==
    /\ call \in {"request", "password_change"}
    /\ ~ret.raised
    /\ ret.val.kind = "render"
    /\ ret.val.executed = "password_change"

\* The browser requests the target of the redirect; the logout view has
\* ended the login
FollowRedirect ==
    /\ RedirectPending
    /\ \E path \in RouteTargets(ret.val.to) :
          LET who == IF ret.val.executed = "logout" THEN Anonymous
                     ELSE arg.username
              request == [user |-> RequestUser(who), path |-> path,
                          username |-> who, via |-> ret.val]
          IN  /\ call' = "request"
              /\ arg' = request
              /\ ret' = ForcePasswordChangeMiddleware(request)
    /\ UNCHANGED <<fetched_session, running, builds, users, auth_group>>

\* The user posts the form of the password change page shown
SubmitPasswordChange(form_is_valid) ==
    /\ PasswordChangePage
    /\ arg.user.is_authenticated
    /\ PostPasswordChange(arg.username, form_is_valid)

\* The client leaves the page it has been answered with
Leave ==
    /\ ~RedirectPending
    /\ ~(PasswordChangePage /\ arg.user.is_authenticated
            /\ arg.user.must_change_password)
    /\ Return

NextForced ==
    \/ Request
    \/ FollowRedirect
    \/ \E form_is_valid \in BOOLEAN : SubmitPasswordChange(form_is_valid)
    \/ Leave

SpecForced ==
    /\ InitWeb
    /\ [][NextForced]_vars
    /\ WF_vars(FollowRedirect)
    /\ WF_vars(SubmitPasswordChange(TRUE))

Next ==
    \/ ExtractMessageContent
    \/ FilterOutputMessages
    \/ SimplifyOutputMessages
    \/ FormatToolInput
    \/ AddTrace
    \/ GetSessionChatData
    \/ BuildChatHistory
    \/ Return
    \/ NextBuilds
    \/ UserHasToolPermission
    \/ AssignUserToTool
    \/ Request
    \/ AnnotateObject
    \/ GetAnnotationQueues
    \/ GetAnnotationQueue
    \/ GetQueueItems
    \/ ParseTraceMessages
    \/ PasswordChange
    \/ AdminChangelist
    \/ FollowRedirect
    \/ \E form_is_valid \in BOOLEAN : SubmitPasswordChange(form_is_valid)

Spec == Init /\ [][Next]_vars

SpecContent == Init /\ [][NextContent]_vars

(***************************************************************************)
(* Claims about extract_message_content (checked under SpecContent).       *)
(***************************************************************************)
Extracted == call = "extract_message_content"
ContentOf(m) == m.v["content"]
IsTextTagged(part) == IsDict(part) /\ DictGet(part, "type", PyNone) = PyStr("text")
Fallback(m) == Ok(PyStr(PyToStr(m)))

\* C7: a message whose content is a plain string yields exactly that string,
\* whatever other fields (text, tool_calls) the message carries.
C7_StringContentUnchanged ==
    (Extracted /\ HasKey(arg, "content") /\ IsStr(ContentOf(arg)))
        => ret = Ok(ContentOf(arg))

C7_Witness ==
    /\ Extracted
    /\ HasKey(arg, "content") /\ ContentOf(arg) = PyStr("hello")
    /\ HasKey(arg, "text") /\ HasKey(arg, "tool_calls")
    /\ ret = Ok(PyStr("hello"))

RECURSIVE TaggedTexts(_, _), TaggedOrStrTexts(_, _)

\* The text fields of the parts tagged type == 'text' ('' when a part has none)
TaggedTexts(content, i) ==
    IF i > Len(content) THEN <<>>
    ELSE (IF IsTextTagged(content[i])
          THEN <<DictGet(content[i], "text", PyStr(""))>> ELSE <<>>)
         \o TaggedTexts(content, i + 1)

\* The same, and the parts that are plain strings themselves
TaggedOrStrTexts(content, i) ==
    IF i > Len(content) THEN <<>>
    ELSE (IF IsTextTagged(content[i])
          THEN <<DictGet(content[i], "text", PyStr(""))>>
          ELSE IF IsStr(content[i]) THEN <<content[i]>> ELSE <<>>)
         \o TaggedOrStrTexts(content, i + 1)

AllStr(xs) == \A i \in 1..Len(xs) : IsStr(xs[i])

ListContentCall == Extracted /\ HasKey(arg, "content") /\ IsList(ContentOf(arg))

\* C8 as claimed: a list content yields the text fields of exactly the parts
\* tagged type == 'text', joined by newline; no other part contributes.
C8_OnlyTaggedPartsJoined ==
    ListContentCall
        => /\ ~ret.raised
           /\ AllStr(TaggedTexts(ContentOf(arg).v, 1))
           /\ ret.val = PyStr(JoinFrom("\n", TaggedTexts(ContentOf(arg).v, 1), 1))

\* C8 as amended: a list content yields the text fields of the parts tagged
\* type == 'text' and the parts that are plain strings, in order, joined by
\* newline; every other part contributes nothing and causes no error; the
\* call raises exactly when the text of a text-tagged part is not a string.
C8_TaggedAndStringPartsJoined ==
    ListContentCall
        => LET texts == TaggedOrStrTexts(ContentOf(arg).v, 1)
           IN  IF AllStr(texts)
               THEN ret = Ok(PyStr(JoinFrom("\n", texts, 1)))
               ELSE ret = Raise("TypeError")

C8_Witness ==
    /\ ListContentCall
    /\ ContentOf(arg).v = <<ImagePart, PyStr("s")>>
    /\ ret = Ok(PyStr("s"))

\* C9: extract_message_content never raises and always returns a string; a
\* message with neither a string or list content nor a text field yields the
\* string rendering of the whole structure.
C9_NeverRaisesReturnsString ==
    Extracted
        => /\ ~ret.raised
           /\ IsStr(ret.val)
           /\ (/\ IsDict(arg)
               /\ ~HasKey(arg, "text")
               /\ (HasKey(arg, "content")
                      => ~IsStr(ContentOf(arg)) /\ ~IsList(ContentOf(arg))))
                  => ret = Fallback(arg)

\* C10: a content that is not a plain string and holds no text-typed part
\* never yields the empty string: the non-empty fallback rendering is returned.
C10_NoEmptyContent ==
    (/\ Extracted
     /\ HasKey(arg, "content")
     /\ ~IsStr(ContentOf(arg))
     /\ IsList(ContentOf(arg))
            => \A i \in 1..Len(ContentOf(arg).v) :
                   ~IsTextTagged(ContentOf(arg).v[i]))
        => /\ ~ret.raised
           /\ ret.val # PyStr("")
           /\ ~HasKey(arg, "text") => ret = Fallback(arg)

(***************************************************************************)
(* Claims about the transcript builders (SpecSession, SpecOutput).         *)
(***************************************************************************)
\* t1 < t2 as times
TimeBefore(t1, t2) == parse_timestamp(t1) < parse_timestamp(t2)

\* In xs, everything of trace a stands before everything of trace b
DerivedBefore(xs, a, b) ==
    \A i, j \in 1..Len(xs) :
        (xs[i].trace_id = a.id /\ xs[j].trace_id = b.id) => i < j

EarlierPairs(s) ==
    {ab \in (1..Len(s.traces)) \X (1..Len(s.traces)) :
        TimeBefore(s.traces[ab[1]].timestamp, s.traces[ab[2]].timestamp)}

\* C1: when two traces of a session have timestamps t1 < t2, what is derived
\* from the t1 trace stands before what is derived from the t2 trace in the
\* built transcript (the entries of build_chat_history, the messages of each
\* thread in thread mode), whatever the order of session.traces.
C1_TimestampOrder ==
    /\ (call = "build_chat_history" /\ ~ret.raised)
          => \A ab \in EarlierPairs(arg) :
                 DerivedBefore(ret.val, arg.traces[ab[1]], arg.traces[ab[2]])
    /\ (call = "get_session_chat_data" /\ ~ret.raised)
          => \A ab \in EarlierPairs(arg) :
                 \A tid \in DOMAIN ret.val.threads :
                     DerivedBefore(ret.val.threads[tid].messages,
                                   arg.traces[ab[1]], arg.traces[ab[2]])

\* A session whose later trace comes first in session.traces, both in the
\* same thread, and the thread lists the earlier trace's messages first.
C1_Witness ==
    /\ call = "get_session_chat_data" /\ ~ret.raised
    /\ Len(arg.traces) = 2
    /\ arg.traces[1].timestamp = <<1, 0>> /\ arg.traces[2].timestamp = <<0, 9>>
    /\ \E tid \in DOMAIN ret.val.threads :
          LET ms == ret.val.threads[tid].messages
          IN  /\ Len(ms) = 6
              /\ \A i \in 1..3 : ms[i].trace_id = "trace_2"
              /\ \A i \in 4..6 : ms[i].trace_id = "trace_1"

\* C5: build_chat_history returns exactly one entry per trace of the session;
\* the entry of a trace has its id as trace_id and the content of the first
\* message of its input.messages as input.
C5_OneEntryPerTrace ==
    (call = "build_chat_history" /\ ~ret.raised)
        => /\ Len(ret.val) = Len(arg.traces)
           /\ \A k \in 1..Len(arg.traces) :
                  \E i \in 1..Len(ret.val) :
                      /\ ret.val[i].trace_id = arg.traces[k].id
                      /\ ret.val[i].input
                             = arg.traces[k].input.v["messages"].v[1].v["content"]

C5_Witness ==
    /\ call = "build_chat_history" /\ ~ret.raised
    /\ Len(arg.traces) = 2
    /\ ret.val[1].trace_id = "trace_2" /\ ret.val[2].trace_id = "trace_1"
    /\ ret.val[1].input = PyStr("Hi")

\* C6: get_session_chat_data returns a record with the keys session_id,
\* created_at, project_id, environment, traces and total_traces; session_id,
\* project_id and environment are those of the session, and total_traces is
\* the number of traces of the session.
C6_ChatDataRecord ==
    call = "get_session_chat_data"
        => /\ ~ret.raised
           /\ {"session_id", "created_at", "project_id", "environment",
               "traces", "total_traces"} \subseteq DOMAIN ret.val
           /\ ret.val.session_id = arg.id
           /\ ret.val.project_id = arg.project_id
           /\ ret.val.environment = arg.environment
           /\ ret.val.total_traces = Len(arg.traces)

FilterCalled == call = "filter_output_messages"
OutputOf(trace) == trace.output.v["messages"].v

\* m echoes the input of the trace: type human and the id of input.messages[0]
Echoes(trace, m) ==
    /\ IsDict(m)
    /\ HasKey(m, "type") /\ m.v["type"] = PyStr("human")
    /\ HasKey(m, "id") /\ m.v["id"] = trace.input.v["messages"].v[1].v["id"]

\* C2: filter_output_messages returns exactly the messages of
\* output.messages strictly after the first message of type human with the
\* id of input.messages[0], in their order; with no such message (an empty
\* output included) it returns the empty list and does not raise.
C2_AfterFirstEcho ==
    FilterCalled
        => LET out == OutputOf(arg)
               echo == {i \in 1..Len(out) : Echoes(arg, out[i])}
           IN  /\ ~ret.raised
               /\ echo = {} => ret.val = PyList(<<>>)
               /\ \A i \in echo :
                      (\A j \in echo : i <= j)
                          => /\ Len(ret.val.v) = Len(out) - i
                             /\ \A k \in 1..(Len(out) - i) :
                                    ret.val.v[k] = out[i + k]

\* Two echoes of the input: the cut is at the first one.
C2_Witness ==
    /\ FilterCalled
    /\ Len(OutputOf(arg)) = 3
    /\ Echoes(arg, OutputOf(arg)[1]) /\ Echoes(arg, OutputOf(arg)[3])
    /\ ~Echoes(arg, OutputOf(arg)[2])
    /\ ret = Ok(PyList(<<OutputOf(arg)[2], OutputOf(arg)[3]>>))

SimplifyCalled == call = "simplify_output_messages"
IsAi(m) == IsDict(m) /\ HasKey(m, "type") /\ m.v["type"] = PyStr("ai")
IsTool(m) == IsDict(m) /\ HasKey(m, "type") /\ m.v["type"] = PyStr("tool")
CallsOf(m) == IF IsAi(m) /\ HasKey(m, "tool_calls") THEN m.v["tool_calls"].v ELSE <<>>
IsToolItem(item) == HasKey(item, "tool")

RECURSIVE CountCalls(_, _)

CountCalls(msgs, n) ==
    IF n = 0 THEN 0 ELSE CountCalls(msgs, n - 1) + Len(CallsOf(msgs[n]))

\* C3: every entry of an ai message's tool_calls gives one tool item
\* {id, name, input, output}; its output is the content of the tool message
\* with that tool_call_id, wherever it stands in the list, and null when
\* there is none; nothing is raised.
C3_ToolCallsPaired ==
    SimplifyCalled
        => LET msgs == arg.v
               items == ret.val.v
               tools == {n \in 1..Len(items) : IsToolItem(items[n])}
           IN  /\ ~ret.raised
               /\ Cardinality(tools) = CountCalls(msgs, Len(msgs))
               /\ \A n \in tools :
                      DOMAIN items[n].v["tool"].v = {"id", "name", "input", "output"}
               /\ \A i \in 1..Len(msgs) : \A k \in 1..Len(CallsOf(msgs[i])) :
                      LET tc == CallsOf(msgs[i])[k]
                          answers == {j \in 1..Len(msgs) :
                                         /\ IsTool(msgs[j])
                                         /\ msgs[j].v["tool_call_id"] = tc.v["id"]}
                      IN  \E n \in tools :
                              LET tool == items[n].v["tool"].v
                              IN  /\ tool.id = tc.v["id"]
                                  /\ tool.name = tc.v["name"]
                                  /\ IF answers = {} THEN tool.output = PyNone
                                     ELSE \E j \in answers :
                                              tool.output = msgs[j].v["content"]

\* The tool message stands before the ai message that calls it, and a second
\* call has no tool message.
C3_Witness ==
    /\ SimplifyCalled
    /\ arg.v = <<ToolMessage("c1", "sunny"),
                 AiMessage(<<TextPartA>>,
                           <<ToolCall("c1", "search"), ToolCall("c2", "fetch")>>)>>
    /\ Len(ret.val.v) = 3
    /\ ret.val.v[2].v["tool"].v.output = PyStr("sunny")
    /\ ret.val.v[3].v["tool"].v.output = PyNone

\* What an item shows of its origin: its text, or the id of its tool call
LabelOf(item) ==
    IF IsToolItem(item) THEN <<"tool", item.v["tool"].v.id>>
    ELSE <<"ai", item.v["ai"]>>

HasText(m) ==
    \E p \in 1..Len(m.v["content"].v) :
        /\ IsTextTagged(m.v["content"].v[p])
        /\ m.v["content"].v[p].v["text"] # PyStr("")

\* C4: the items stand in the order of the ai messages they come from; the
\* text item of an ai message (if any) comes first and its tool-call items
\* follow it at once, in tool_calls order; tool-typed and other non-ai
\* messages give no item, so the result of [] is [].
C4_ItemOrder ==
    SimplifyCalled
        => LET msgs == arg.v
               items == ret.val.v
               \* the number of items the first n messages account for
               Upto[n \in 0..Len(msgs)] ==
                   IF n = 0 THEN 0
                   ELSE Upto[n - 1]
                        + (IF IsAi(msgs[n])
                           THEN (IF HasText(msgs[n]) THEN 1 ELSE 0)
                                + Len(CallsOf(msgs[n]))
                           ELSE 0)
           IN  /\ Len(items) = Upto[Len(msgs)]
               /\ \A n \in 1..Len(msgs) :
                      IsAi(msgs[n]) =>
                          LET base == Upto[n - 1]
                              text == IF HasText(msgs[n]) THEN 1 ELSE 0
                          IN  /\ text = 1 => ~IsToolItem(items[base + 1])
                              /\ \A k \in 1..Len(CallsOf(msgs[n])) :
                                     LabelOf(items[base + text + k])
                                         = <<"tool", CallsOf(msgs[n])[k].v["id"]>>
               /\ msgs = <<>> => items = <<>>

\* Two ai messages around a tool message: text, two calls, then the text of
\* the second ai message.
C4_Witness ==
    /\ SimplifyCalled
    /\ arg.v = <<AiMessage(<<TextPartA>>,
                           <<ToolCall("c1", "search"), ToolCall("c2", "fetch")>>),
                 ToolMessage("c1", "sunny"),
                 AiTextOnly(<<TextPartA, ImagePart, TextPartB>>)>>
    /\ Len(ret.val.v) = 4
    /\ ret.val.v[1] = PyDict([ai |-> PyStr("a")])
    /\ LabelOf(ret.val.v[2]) = <<"tool", PyStr("c1")>>
    /\ LabelOf(ret.val.v[3]) = <<"tool", PyStr("c2")>>
    /\ ret.val.v[4] = PyDict([ai |-> PyStr("a b")])

(***************************************************************************)
(* Claims about format_tool_input (checked under SpecOutput).              *)
(***************************************************************************)
Formatted == call = "format_tool_input"

\* C11: format_tool_input never raises; it returns null for absent or empty
\* args (None, {}), the pretty serialization (a string) for non-empty
\* serializable args, and the plain string rendering (a non-empty string)
\* for args that cannot be serialized.
C11_FormatToolInputTotal ==
    Formatted =>
        /\ ~ret.raised
        /\ ret.val = PyNone \/ IsStr(ret.val)
        /\ arg \in {PyNone, EmptyDict} => ret.val = PyNone
        /\ Truthy(arg) /\ Serializable(arg) =>
              ret.val = PyStr(JsonDump(arg, 0))
        /\ ~Serializable(arg) =>
              /\ ret.val = PyStr(PyToStr(arg))
              /\ ret.val.v # ""

\* A call with each kind of args has returned: empty, serializable, and not
\* serializable (nested inside a dict)
C11_Witness ==
    /\ Formatted
    /\ arg = PyDict([name |-> PyObject])
    /\ ret = Ok(PyStr("{'name': <NonSerializable object>}"))

C11_WitnessEmpty == Formatted /\ arg = EmptyDict /\ ret = Ok(PyNone)

C11_WitnessSerialized ==
    /\ Formatted
    /\ arg = PyDict([name |-> PyStr("Paris"), text |-> PyStr("France")])
    /\ ret = Ok(PyStr("{\n  \"text\": \"France\",\n  \"name\": \"Paris\"\n}"))

(***************************************************************************)
(* Claims about repeated and concurrent builds (checked under SpecBuilds). *)
(***************************************************************************)
\* C12: the builder is deterministic and keeps no state between calls: two
\* builds from the same session give the same result, whatever builds for
\* other sessions ran in between or at the same time, and a build leaves the
\* session and its traces as they were passed.
C12_BuildsDeterministic ==
    /\ \A i, j \in DOMAIN builds :
          builds[i].given = builds[j].given =>
              /\ builds[i].result = builds[j].result
              /\ builds[i].result = get_session_chat_data(builds[i].given)
    /\ \A i \in DOMAIN builds : builds[i].session = builds[i].given
    /\ \A w \in Busy : running[w].session = running[w].given

\* The same session has been built first and last, with a build of another
\* session that started while the first was running and ended in between
C12_Witness ==
    /\ Len(builds) = 3
    /\ builds[1].given = builds[3].given
    /\ builds[2].given # builds[1].given
    /\ builds[2].finished_before = 0
    /\ ~builds[1].result.raised
    /\ builds[1].result.val.total_messages > 0
    /\ builds[3].result = builds[1].result

(***************************************************************************)
(* Claims about malformed messages (checked under SpecSession).            *)
(***************************************************************************)
\* C13: the builder never raises because of a malformed individual message:
\* whatever the elements of input.messages and output.messages of the
\* traces are (the traces of the model hold messages lists or no input and
\* output at all), get_session_chat_data returns, and every message record
\* of a trace's input is among the messages of the result.
C13_MalformedMessageNeverRaises ==
    call = "get_session_chat_data" =>
        /\ ~ret.raised
        /\ \A n \in 1..Len(arg.traces) :
              LET trace == arg.traces[n]
                  given == IF InMessages(trace.input)
                           THEN trace.input.v["messages"].v ELSE <<>>
                  records == {i \in 1..Len(given) : IsDict(given[i])}
                  tid == ThreadIdOf(trace, arg)
              IN  Cardinality({k \in 1..Len(ret.val.threads[tid].messages) :
                        ret.val.threads[tid].messages[k].trace_id = trace.id})
                      >= Cardinality(records)

(***************************************************************************)
(* Claims about the tool permissions (checked under SpecWeb).              *)
(***************************************************************************)
PermissionChecked == call = "user_has_tool_permission"

ToolGroupOf(tool_name) ==
    IF tool_name = "annotation" THEN "annotation_users" ELSE "session_viewers"

Assigned == call = "assign_user_to_tool"

\* C20: assign_user_to_tool returns True exactly when the tool name is valid
\* and the group of the tool exists, and then the user has the permission
\* for the tool; otherwise it returns False without raising and leaves every
\* membership as it was; no membership any user had is ever removed.
C20_AssignGrantsOnly ==
    Assigned =>
        LET valid == /\ arg.tool_name \in {"annotation", "session_viewer"}
                     /\ ToolGroupOf(arg.tool_name) \in auth_group
        IN  /\ ~ret.raised
            /\ ret.val = PyBool(valid)
            /\ valid => user_has_tool_permission(users[arg.username], arg.tool_name)
            /\ ~valid => users = arg.users_before
            /\ \A name \in UserNames :
                  /\ arg.users_before[name].groups \subseteq users[name].groups
                  /\ name # arg.username => users[name] = arg.users_before[name]
            /\ \A name \in UserNames, tool_name \in ToolNames :
                  user_has_tool_permission(arg.users_before[name], tool_name)
                      => user_has_tool_permission(users[name], tool_name)

\* A member of session_viewers has been assigned to the annotation tool and
\* is now a member of both groups
C20_Witness ==
    /\ Assigned
    /\ arg.username = "user"
    /\ arg.tool_name = "annotation"
    /\ arg.users_before["user"].groups = {"session_viewers"}
    /\ ret = Ok(PyBool(TRUE))
    /\ users["user"].groups = {"annotation_users", "session_viewers"}

\* The group of the tool does not exist: False, and nothing has changed
C20_WitnessMissingGroup ==
    /\ Assigned
    /\ arg.tool_name = "annotation"
    /\ "annotation_users" \notin auth_group
    /\ ret = Ok(PyBool(FALSE))
    /\ users = arg.users_before

(***************************************************************************)
(* Claims about annotate_object (checked under SpecWeb).                   *)
(***************************************************************************)
AnnotateCalled == call = "annotate_object"

\* The body of annotate_object has run for a session object
AnnotateBodyRan ==
    /\ AnnotateCalled
    /\ arg.user.is_authenticated
    /\ user_has_tool_permission(arg.user, "annotation")
    /\ arg.object_type \in {"session", "SESSION"}

\* C14: annotate_object lets no exception of the session fetch or of the
\* transcript builder escape: whenever the fetch or the parsing raises, the
\* annotation page is still rendered, with a non-empty error message and no
\* chat data in its context.
C14_ErrorsRendered ==
    AnnotateCalled =>
        /\ ~ret.raised
        /\ AnnotateBodyRan /\ LoadChatData(arg.fetched).raised =>
              /\ ret.val.kind = "render"
              /\ ret.val.to = "annotation_tool/annotate_object.html"
              /\ ret.val.executed = "annotation_tool.annotate_object"
              /\ IsStr(ret.val.context.error)
              /\ ret.val.context.error.v # ""
              /\ ret.val.context.chat_data = PyNone

\* The fetch has raised an exception that is no LangfuseAPIError and has an
\* empty message, and the page shows the error
C14_Witness ==
    /\ AnnotateBodyRan
    /\ arg.fetched = Raise(Exc("ReadTimeout", ""))
    /\ ~ret.raised
    /\ ret.val.kind = "render"
    /\ ret.val.context.error = PyStr("Unexpected error: ")

\* The fetch has succeeded and the builder has raised
C14_WitnessParse ==
    /\ AnnotateBodyRan
    /\ ~arg.fetched.raised
    /\ ~ret.raised
    /\ ret.val.context.error =
          PyStr("Unexpected error: 'dict' object has no attribute 'session_id'")

(***************************************************************************)
(* Claims about the access to the tool views (checked under SpecWeb).      *)
(***************************************************************************)
\* The tool view a call is for: the routed view of a request, or
\* annotate_object called with its decorators
Requested == call = "request"

ToolViewAsked ==
    IF Requested THEN Resolve(arg.path)
    ELSE IF AnnotateCalled THEN "annotation_tool.annotate_object"
    ELSE "none"

MayUse(user, tool_name) ==
    \/ user.is_superuser
    \/ ToolGroupOf(tool_name) \in user.groups

\* The middleware stands before the views that are not exempt (no tool
\* view is): the user is logged in and has to change the password
HeldByMiddleware ==
    /\ Requested
    /\ arg.user.is_authenticated
    /\ arg.user.must_change_password

\* C16 as stated: the body of a tool view runs only for a logged-in user
\* with the permission for its tool; an anonymous request is redirected to
\* the login page and every request of a logged-in user without the
\* permission is redirected to the dashboard.
C16_ToolViewsGuarded ==
    ToolViewAsked \in ToolViews =>
        /\ ~ret.raised
        /\ ret.val.executed \in ToolViews =>
              /\ ret.val.executed = ToolViewAsked
              /\ arg.user.is_authenticated
              /\ MayUse(arg.user, ToolOf(ToolViewAsked))
        /\ ~arg.user.is_authenticated => ret = Ok(Redirect("login", "none"))
        /\ arg.user.is_authenticated /\ ~MayUse(arg.user, ToolOf(ToolViewAsked))
              => ret = Ok(Redirect("core:dashboard", "none"))

\* C16, amended: the same, except that a logged-in user who has to change
\* the password is redirected to the password change page by the middleware
\* before the view is reached, with or without the permission.
C16_ToolViewsGuardedBehindMiddleware ==
    ToolViewAsked \in ToolViews =>
        /\ ~ret.raised
        /\ ret.val.executed \in ToolViews =>
              /\ ret.val.executed = ToolViewAsked
              /\ arg.user.is_authenticated
              /\ MayUse(arg.user, ToolOf(ToolViewAsked))
        /\ ~arg.user.is_authenticated => ret = Ok(Redirect("login", "none"))
        /\ HeldByMiddleware => ret = Ok(Redirect("password_change", "none"))
        /\ (/\ arg.user.is_authenticated
            /\ ~HeldByMiddleware
            /\ ~MayUse(arg.user, ToolOf(ToolViewAsked)))
              => ret = Ok(Redirect("core:dashboard", "none"))
        /\ (/\ arg.user.is_authenticated
            /\ ~HeldByMiddleware
            /\ MayUse(arg.user, ToolOf(ToolViewAsked)))
              => ret.val.executed = ToolViewAsked

\* A member of annotation_users only, with the password changed, has asked
\* for the session viewer and was sent to the dashboard
C16_Witness ==
    /\ Requested
    /\ arg.path = <<"/", "tools", "/", "sessions", "/">>
    /\ arg.user.is_authenticated
    /\ ~arg.user.must_change_password
    /\ arg.user.groups = {"annotation_users"}
    /\ ret = Ok(Redirect("core:dashboard", "none"))

\* The same user has asked for the queue list and its body has run
C16_WitnessAllowed ==
    /\ Requested
    /\ arg.path = <<"/", "tools", "/", "annotation", "/", "queues", "/">>
    /\ ~arg.user.is_superuser
    /\ arg.user.groups = {"annotation_users"}
    /\ ret.val.executed = "annotation_tool.queue_list"

(***************************************************************************)
(* Claims about the forced password change (checked under SpecWeb).        *)
(***************************************************************************)
\* The exempt pages as the documentation lists them
UnderAdmin(path) == StartsWith(path, <<"/", "admin", "/">>)

ExemptPage(path) ==
    \/ Resolve(path) \in {"password_change", "login", "logout"}
    \/ StartsWith(path, <<"/", "static", "/">>)
    \/ StartsWith(path, <<"/", "media", "/">>)
    \/ UnderAdmin(path)

\* C17: a request of a logged-in user with must_change_password = True to a
\* path that is not exempt (password change, login, logout, static and
\* media files, admin pages) is answered by a redirect to the password
\* change page and no view runs; a request of an anonymous user or of a user
\* with the flag False gets the response of the view.
C17_ForcedPasswordChange ==
    Requested =>
        /\ HeldByMiddleware /\ ~ExemptPage(arg.path) =>
              /\ ret = Ok(Redirect("password_change", "none"))
              /\ ret.val.executed = "none"
        /\ ~HeldByMiddleware => ret = get_response(arg)

\* A superuser who has to change the password has asked for the dashboard
\* and was sent to the password change page
C17_Witness ==
    /\ Requested
    /\ arg.user.is_superuser
    /\ arg.user.must_change_password
    /\ arg.path = <<"/", "dashboard", "/">>
    /\ ret = Ok(Redirect("password_change", "none"))

\* C18: the admin pages are exempt for superusers only: a logged-in user
\* with must_change_password = True who requests a path under /admin/ is
\* redirected to the password change page unless the user is a superuser,
\* who is let through to the admin site.
C18_AdminExemptForSuperusersOnly ==
    Requested /\ HeldByMiddleware /\ UnderAdmin(arg.path) =>
        IF arg.user.is_superuser
        THEN ret.val.executed = "admin_site"
        ELSE ret = Ok(Redirect("password_change", "none"))

(***************************************************************************)
(* Claims about the wrappers of annotation_tool/utils.py (checked under    *)
(* SpecQueues).                                                            *)
(***************************************************************************)
WrapperCalled ==
    call \in {"get_annotation_queues", "get_annotation_queue",
              "get_queue_items"}

ListWrapperCalled == call \in {"get_annotation_queues", "get_queue_items"}

\* An API failure: a key is missing or empty, the request has raised a
\* connection error, or the response has an error status
CredentialsMissing ==
    \E name \in {"LANGFUSE_PUBLIC_KEY", "LANGFUSE_SECRET_KEY"} :
        arg.settings[name] \in {PyNone, PyStr("")}

ConnectionFailed ==
    arg.exchange.raised /\ arg.exchange.val.class \in RequestErrors

HttpError ==
    ~arg.exchange.raised /\ arg.exchange.val.status_code >= 400

ApiFailed == CredentialsMissing \/ ConnectionFailed \/ HttpError

\* C19: get_annotation_queues, get_annotation_queue and get_queue_items do
\* not raise on an API failure (missing credentials, HTTP error, connection
\* error): they return a record with error = True and a message, and the
\* two list operations also data = [] and meta.totalItems = 0.
C19_WrappersReturnErrorRecord ==
    WrapperCalled /\ ApiFailed =>
        /\ ~ret.raised
        /\ IsDict(ret.val)
        /\ HasKey(ret.val, "error")
        /\ ret.val.v["error"] = PyBool(TRUE)
        /\ HasKey(ret.val, "message")
        /\ IsStr(ret.val.v["message"])
        /\ ListWrapperCalled =>
              /\ HasKey(ret.val, "data")
              /\ ret.val.v["data"] = PyList(<<>>)
              /\ HasKey(ret.val, "meta")
              /\ HasKey(ret.val.v["meta"], "totalItems")
              /\ ret.val.v["meta"].v["totalItems"] = PyInt(0)

\* get_annotation_queues without credentials has returned the error record
C19_Witness ==
    /\ call = "get_annotation_queues"
    /\ arg.settings["LANGFUSE_PUBLIC_KEY"] = PyNone
    /\ arg.limit = PyNone
    /\ ~ret.raised
    /\ ret.val.v["error"] = PyBool(TRUE)
    /\ ret.val.v["message"] =
          PyStr("Unexpected error: Langfuse API credentials not configured in settings")
    /\ ret.val.v["data"] = PyList(<<>>)
    /\ ret.val.v["meta"].v["limit"] = PyInt(50)

\* get_queue_items has met a connection error with the credentials set
C19_WitnessConnection ==
    /\ call = "get_queue_items"
    /\ ~CredentialsMissing
    /\ ConnectionFailed
    /\ ret.val.v["message"] =
          PyStr("Failed to connect to Langfuse API: All connection attempts failed")

\* get_annotation_queue has met a 404 with the credentials set
C19_WitnessNotFound ==
    /\ call = "get_annotation_queue"
    /\ arg.queue_id = "q2"
    /\ ret = Ok(PyDict([error |-> PyBool(TRUE),
                        message |-> PyStr("Annotation queue 'q2' not found"),
                        id |-> PyStr("q2"),
                        name |-> PyStr("Queue Not Found"),
                        description |-> PyNone]))

(***************************************************************************)
(* Claims about the thread mode (checked under SpecThreads).               *)
(***************************************************************************)
ChatDataCalled == call = "get_session_chat_data"

\* The thread id of a trace as the documentation derives it: the thread_id
\* of the metadata when there is one, otherwise the session id of the trace
\* when there is one, otherwise the id of the session
HasThreadId(trace) ==
    /\ HasKey(trace.metadata, "thread_id")
    /\ trace.metadata.v["thread_id"] # PyNone

HasSessionId(trace) == trace.session_id \notin {PyNone, PyStr("")}

DerivedThreadId(trace, session) ==
    IF HasThreadId(trace) THEN trace.metadata.v["thread_id"]
    ELSE IF HasSessionId(trace) THEN trace.session_id
    ELSE PyStr(session.id)

\* The messages in a list that come from a trace, in their order
RECURSIVE OfTrace(_, _)

OfTrace(messages, trace_id) ==
    IF messages = <<>> THEN <<>>
    ELSE (IF Head(messages).trace_id = trace_id THEN <<Head(messages)>>
          ELSE <<>>) \o OfTrace(Tail(messages), trace_id)

\* C21: in thread mode the messages of each trace are in the thread whose id
\* is the thread_id of the trace's metadata when the trace has one, otherwise
\* the trace's session_id when it has one, otherwise the session's id; the
\* metadata of every thread records its thread id and the session's id.
C21_ThreadOfTrace ==
    ChatDataCalled =>
        /\ ~ret.raised
        /\ \A n \in DOMAIN arg.traces :
              LET trace == arg.traces[n]
                  tid == DerivedThreadId(trace, arg)
              IN  /\ tid \in DOMAIN ret.val.threads
                  /\ OfTrace(ret.val.threads[tid].messages, trace.id)
                        = parse_trace_messages(trace).val
        /\ \A tid \in DOMAIN ret.val.threads :
              /\ ret.val.threads[tid].metadata.thread_id = tid
              /\ ret.val.threads[tid].metadata.session_id = arg.id

(***************************************************************************)
(* Claims about parse_trace_messages (checked under SpecTrace).            *)
(***************************************************************************)
ParseTraceCalled == call = "parse_trace_messages"

\* The messages of one side of a trace: the dict items of its 'messages'
RECURSIVE DictItems(_)

DictItems(msgs) ==
    IF msgs = <<>> THEN <<>>
    ELSE (IF IsDict(Head(msgs)) THEN <<Head(msgs)>> ELSE <<>>)
            \o DictItems(Tail(msgs))

SideMessages(side) ==
    IF HasKey(side, "messages") THEN DictItems(side.v["messages"].v) ELSE <<>>

IsHuman(m) == HasKey(m, "type") /\ m.v["type"] = PyStr("human")

RECURSIVE WithoutHuman(_)

WithoutHuman(msgs) ==
    IF msgs = <<>> THEN <<>>
    ELSE (IF IsHuman(Head(msgs)) THEN <<>> ELSE <<Head(msgs)>>)
            \o WithoutHuman(Tail(msgs))

\* The display type the documentation gives a message
ShownAs(m) ==
    IF IsHuman(m) THEN "user"
    ELSE IF HasKey(m, "type") /\ m.v["type"] = PyStr("ai") THEN "assistant"
    ELSE "system"

\* ret lists one message per source message, in order, with the display
\* type of its source and the id and timestamp of the trace
ParsedFrom(sources) ==
    /\ Len(ret.val) = Len(sources)
    /\ \A i \in 1..Len(sources) :
          /\ ret.val[i].type = ShownAs(sources[i])
          /\ ret.val[i].content = extract_message_content(sources[i]).val
          /\ ret.val[i].trace_id = arg.id
          /\ ret.val[i].timestamp = arg.timestamp

ContentRaises(sources) ==
    \E i \in 1..Len(sources) : extract_message_content(sources[i]).raised

DashboardShown ==
    /\ Requested
    /\ ~ret.raised
    /\ ret.val.executed = "dashboard"

\* The names of the tools a context lists
ListedNames(tools) == {tools[i].name : i \in DOMAIN tools}

\* The tool a card of the dashboard stands for
ToolOfCard(name) ==
    IF name = "Annotation Tool" THEN "annotation" ELSE "session_viewer"

\* C23: the dashboard lists a tool exactly when the requesting user has the
\* permission for it (a superuser, or a member of the group of the tool),
\* each tool once; available_count is the length of the list and is at most
\* total_tools.
C23_DashboardListsPermittedTools ==
    DashboardShown =>
        LET context == ret.val.context
        IN  /\ \A name \in {"Annotation Tool", "Session Viewer"} :
                  name \in ListedNames(context.tools)
                      <=> MayUse(arg.user, ToolOfCard(name))
            /\ Cardinality(ListedNames(context.tools)) = Len(context.tools)
            /\ context.available_count = Len(context.tools)
            /\ context.available_count <= context.total_tools
            /\ context.total_tools = 2

\* A member of annotation_users alone sees the Annotation Tool only
C23_Witness ==
    /\ DashboardShown
    /\ ~arg.user.is_superuser
    /\ arg.user.groups = {"annotation_users"}
    /\ ListedNames(ret.val.context.tools) = {"Annotation Tool"}
    /\ ret.val.context.available_count = 1

\* A superuser without groups sees both tools
C23_WitnessSuperuser ==
    /\ DashboardShown
    /\ arg.user.is_superuser
    /\ arg.user.groups = {}
    /\ ret.val.context.available_count = 2

(***************************************************************************)
(* Claims about the order of equal timestamps (checked under SpecSession). *)
(***************************************************************************)
\* The pairs of traces with equal timestamps, in the order of session.traces
TiedPairs(s) ==
    {ab \in (1..Len(s.traces)) \X (1..Len(s.traces)) :
        /\ ab[1] < ab[2]
        /\ s.traces[ab[1]].timestamp = s.traces[ab[2]].timestamp}

\* C24: the sort by timestamp is stable.  Of two traces with equal
\* timestamps, what is derived from the one that stands first in
\* session.traces stands first in the transcript (the entries of
\* build_chat_history, the messages of a thread in thread mode); and in
\* thread mode the messages of one trace stay as parse_trace_messages gives
\* them, the input messages before the output messages, each in array order.
C24_StableSort ==
    /\ (call = "build_chat_history" /\ ~ret.raised)
          => \A ab \in TiedPairs(arg) :
                 DerivedBefore(ret.val, arg.traces[ab[1]], arg.traces[ab[2]])
    /\ (call = "get_session_chat_data" /\ ~ret.raised)
          => \A tid \in DOMAIN ret.val.threads :
                 /\ \A ab \in TiedPairs(arg) :
                        DerivedBefore(ret.val.threads[tid].messages,
                                      arg.traces[ab[1]], arg.traces[ab[2]])
                 /\ \A n \in DOMAIN arg.traces :
                        ThreadIdOf(arg.traces[n], arg) = tid =>
                            OfTrace(ret.val.threads[tid].messages,
                                    arg.traces[n].id)
                                = parse_trace_messages(arg.traces[n]).val

\* Two traces with the same timestamp in one thread: the three messages of
\* the first stand before the three of the second, user message first
C24_Witness ==
    /\ call = "get_session_chat_data" /\ ~ret.raised
    /\ Len(arg.traces) = 2
    /\ arg.traces[1].timestamp = arg.traces[2].timestamp
    /\ \E tid \in DOMAIN ret.val.threads :
          LET ms == ret.val.threads[tid].messages
          IN  /\ Len(ms) = 6
              /\ \A i \in 1..3 : ms[i].trace_id = "trace_1"
              /\ \A i \in 4..6 : ms[i].trace_id = "trace_2"
              /\ ms[1].type = "user" /\ ms[2].type = "assistant"
              /\ ms[4].type = "user"

\* The same for build_chat_history: two entries in the order of the traces
C24_WitnessEntries ==
    /\ call = "build_chat_history" /\ ~ret.raised
    /\ Len(arg.traces) = 2
    /\ arg.traces[1].timestamp = arg.traces[2].timestamp
    /\ Len(ret.val) = 2
    /\ ret.val[1].trace_id = "trace_1"
    /\ ret.val[2].trace_id = "trace_2"

(***************************************************************************)
(* Claims about the counts of get_session_chat_data (checked under         *)
(* SpecThreads).                                                           *)
(***************************************************************************)
RECURSIVE ParsedCount(_, _)

\* The number of messages parse_trace_messages gives for the first n traces
ParsedCount(s, n) ==
    IF n = 0 THEN 0
    ELSE Len(parse_trace_messages(s.traces[n]).val) + ParsedCount(s, n - 1)

RECURSIVE LengthSum(_, _)

\* The sum of the lengths of the message lists of the threads tids
LengthSum(threads, tids) ==
    IF tids = {} THEN 0
    ELSE LET tid == CHOOSE t \in tids : TRUE
         IN  Len(threads[tid].messages) + LengthSum(threads, tids \ {tid})

\* The threads that hold a message equal to m, counted with repetitions
RECURSIVE Occurrences(_, _, _)

Occurrences(threads, tids, m) ==
    IF tids = {} THEN 0
    ELSE LET tid == CHOOSE t \in tids : TRUE
         IN  Cardinality({i \in DOMAIN threads[tid].messages :
                              threads[tid].messages[i] = m})
                + Occurrences(threads, tids \ {tid}, m)

\* How often trace n gives a message equal to m
TimesParsed(trace, m) ==
    Cardinality({i \in DOMAIN parse_trace_messages(trace).val :
                    parse_trace_messages(trace).val[i] = m})

\* C27: in the record of get_session_chat_data, total_threads is the number
\* of distinct thread ids, total_messages is the sum of the lengths of the
\* message lists of the threads and the sum over the traces of the number
\* of messages parse_trace_messages gives, and every parsed message is in
\* the threads as often as it was parsed: none lost, none duplicated.
C27_CountsAgree ==
    ChatDataCalled /\ ~ret.raised =>
        LET threads == ret.val.threads
            tids == DOMAIN threads
        IN  /\ ret.val.total_threads = Cardinality(tids)
            /\ ret.val.total_threads =
                  Cardinality({ThreadIdOf(arg.traces[n], arg) :
                                  n \in DOMAIN arg.traces})
            /\ ret.val.total_messages = LengthSum(threads, tids)
            /\ ret.val.total_messages = ParsedCount(arg, Len(arg.traces))
            /\ \A n \in DOMAIN arg.traces :
                  \A i \in DOMAIN parse_trace_messages(arg.traces[n]).val :
                      LET m == parse_trace_messages(arg.traces[n]).val[i]
                      IN  Occurrences(threads, tids, m)
                              = TimesParsed(arg.traces[n], m)

\* Two traces in two threads, with three and two messages
C27_Witness ==
    /\ ChatDataCalled /\ ~ret.raised
    /\ Len(arg.traces) = 2
    /\ ret.val.total_threads = 2
    /\ ret.val.total_messages = 5
    /\ \E tid \in DOMAIN ret.val.threads : Len(ret.val.threads[tid].messages) = 3
    /\ \E tid \in DOMAIN ret.val.threads : Len(ret.val.threads[tid].messages) = 2

(***************************************************************************)
(* Claims about the password change (checked under SpecWeb).               *)
(***************************************************************************)
\* The step is a password change posted by a logged-in user with a valid
\* form, or with an invalid one
ChangedPassword ==
    /\ call' = "password_change"
    /\ arg'.user.is_authenticated
    /\ arg'.form_is_valid

FailedPasswordChange ==
    /\ call' = "password_change"
    /\ ~arg'.form_is_valid

\* The step sets the flag of a user whose flag was False
FlagSetAgain ==
    \E name \in UserNames :
        /\ ~users[name].must_change_password
        /\ users'[name].must_change_password

\* The step is a request of a logged-in user whose flag is False, and the
\* middleware does not send it to the password change page
FreeRequest ==
    (/\ call' = "request"
     /\ arg'.user.is_authenticated
     /\ ~arg'.user.must_change_password)
        => /\ ret' # Ok(Redirect("password_change", "none"))
           /\ ret' = get_response(arg')

\* C25 as stated: a successful password change leaves the flag of the user
\* False, a failed one leaves the flags as they were, a request of a user
\* whose flag is False is not redirected by the middleware, and no step of
\* the application sets a flag that is False back to True.
C25_FlagNeverSetAgain ==
    [][/\ ChangedPassword => ~users'[arg'.username].must_change_password
       /\ FailedPasswordChange => users' = users
       /\ FreeRequest
       /\ ~FlagSetAgain]_vars

\* C25, amended: the same, except that the flag is set again when a staff
\* user edits must_change_password in the user list of the admin site, and
\* in no other step.
C25_FlagSetAgainByAdminOnly ==
    [][/\ ChangedPassword => ~users'[arg'.username].must_change_password
       /\ FailedPasswordChange => users' = users
       /\ FreeRequest
       /\ FlagSetAgain =>
             /\ call' = "admin_changelist"
             /\ arg'.user.is_superuser
             /\ arg'.value
             /\ \A name \in UserNames \ {arg'.target} :
                   users'[name] = users[name]]_vars

\* The regular user had to change the password, has changed it, and the flag
\* is False
C25_Witness ==
    /\ call = "password_change"
    /\ arg.username = "user"
    /\ arg.form_is_valid
    /\ arg.users_before["user"].must_change_password
    /\ ~users["user"].must_change_password
    /\ ret = Ok(Redirect("core:dashboard", "password_change"))

\* The superuser has set the flag of the regular user again in the admin
C25_WitnessAdmin ==
    /\ call = "admin_changelist"
    /\ arg.username = "admin"
    /\ arg.target = "user"
    /\ ~arg.users_before["user"].must_change_password
    /\ users["user"].must_change_password

(***************************************************************************)
(* Claims about the forced password change (checked under SpecForced).     *)
(***************************************************************************)
\* The middleware has answered a request of the user with the redirect to
\* the password change page
Held(name) ==
    /\ call = "request"
    /\ arg.username = name
    /\ ~is_exempt(arg.path)
    /\ arg.user.must_change_password
    /\ ret = Ok(Redirect("password_change", "none"))

\* The password change view has answered the user
AtPasswordChange(name) ==
    /\ PasswordChangePage
    /\ arg.username = name

\* The dashboard is shown to the user, whose flag is False
AtDashboard(name) ==
    /\ call = "request"
    /\ arg.username = name
    /\ ~users[name].must_change_password
    /\ ~ret.raised
    /\ ret.val.kind = "render"
    /\ ret.val.executed = "dashboard"

\* A request for the password change, login or logout page is passed on to
\* its view, whatever the flag of the user
ExemptPassedOn ==
    (/\ call = "request"
     /\ Resolve(arg.path) \in {"password_change", "login", "logout"})
        => /\ is_exempt(arg.path)
           /\ ret = get_response(arg)
           /\ ~ret.raised
           /\ ret.val.executed = Resolve(arg.path)
                 \/ (Resolve(arg.path) = "password_change"
                        /\ ~arg.user.is_authenticated)

\* C26: the password change, login and logout pages are exempt; every
\* redirect that is followed ends at a page (no loop); a user the middleware
\* holds reaches the password change view by following the redirect, and,
\* having changed the password, reaches the dashboard with the flag False,
\* from where the middleware passes every request of the user on.
C26_NoLockout ==
    /\ []ExemptPassedOn
    /\ RedirectPending ~> ~RedirectPending
    /\ \A name \in UserNames :
          /\ Held(name) ~> AtPasswordChange(name)
          /\ Held(name) ~> AtDashboard(name)
    /\ [](\A name \in UserNames :
            (call = "request" /\ arg.username = name
                /\ ~arg.user.must_change_password)
                => ret = get_response(arg))

\* The regular user, held by the middleware, has followed the redirect and
\* is shown the password change page
C26_Witness ==
    /\ AtPasswordChange("user")
    /\ call = "request"
    /\ arg.via = Redirect("password_change", "none")
    /\ arg.user.must_change_password

\* The regular user has changed the password and followed the redirect of
\* the password change view to the dashboard
C26_WitnessDashboard ==
    /\ AtDashboard("user")
    /\ arg.via = Redirect("core:dashboard", "password_change")

====
